---- MODULE Spec2Model ----
(***************************************************************************)
(* Model of the RSSPRIME aggregation core:                                 *)
(*   - app/scheduler_locks.py : acquire_lock / release_lock                *)
(*   - app/scraper_factory.py : ScraperFactory.scrape_source_section       *)
(*   - app/feed_processor.py  : canonicalize_url, normalize_title,         *)
(*                              get_best_item, process_feed_data           *)
(***************************************************************************)
EXTENDS Integers, Sequences, FiniteSets, TLC

(***************************************************************************)
(* Part 1.  The per-(source, section) lock table (scheduler_locks.py) and  *)
(* its caller scrape_source_section (scraper_factory.py).                  *)
(***************************************************************************)

\* Bounds of the model.
NumCallers == 2          \* concurrent threads calling into the lock module
StartTime == 1000        \* time.time() at start: epoch seconds, far above 30
MaxElapsed == 31         \* the clock stops advancing after this many seconds

\* Program constants.
_STALE_AFTER_SECONDS == 30

Callers == 1..NumCallers
\* (source, section) keys, from TOPIC_DEFINITIONS.
Keys == {<<"ge", "futebol">>, <<"lance", "futebol">>}
\* The key the concurrent scrape_source_section calls contend for.
ScrapeKeys == {<<"ge", "futebol">>}
NoKey == <<>>
\* The clock advances by steps that land exactly on and just past the
\* staleness threshold.
TickSteps == {_STALE_AFTER_SECONDS, _STALE_AFTER_SECONDS + 1}

VARIABLES
    _locks,        \* dict key -> [lock, ts]; DOMAIN _locks = keys present
    _master_lock,  \* 0 when free, else the caller inside "with _master_lock"
    mutex,         \* sequence: mutex[l] = TRUE iff threading.Lock object l is locked
    now,           \* time.time()
    pc,            \* per caller: the statement it is about to execute
    caller,        \* per caller: "scrape" (scrape_source_section) or "api" (direct call)
    key,           \* per caller: argument key of the current / last lock call
    lock,          \* per caller: local `lock` of acquire_lock (0 = unassigned)
    ts,            \* per caller: local `ts` of acquire_lock
    got,           \* per caller: return value of the last acquire_lock
                   \*   ("none" while undecided, else "True" / "False")
    pair,          \* per caller: local `pair` of release_lock (0 = None, else pair[0])
    result,        \* per caller: what scrape_source_section returned last
    raised,        \* per caller: release_lock raised RuntimeError (release of unlocked lock)
    acquired_at,   \* history: acquired_at[l] = time of the last successful l.acquire()
    was_released,  \* history: keys whose mutex has been released at least once
    seen_stale,    \* history, per caller: when the current acquire_lock call began, the
                   \*   key's mutex was held for more than the threshold: the time that
                   \*   holding began (0 otherwise)
    rel_row        \* history: <<>> or <<key, n, snap>>: n consecutive completed
                   \*   release_lock(key) calls of an "api" caller, snap = table after the first

VARIABLES
    data,                 \* the argument of process_feed_data: topic, priority_source_order,
                          \*   max_items, feeds
    fpc,                  \* the statement process_feed_data is about to execute
    all_items,            \* the list all_items
    next_item,            \* index in all_items of the item the dedup loop handles next
    deduplicated_items,   \* the dict: a sequence of [k |-> key, v |-> item] in insertion order
    final_items,          \* the list final_items
    overflow_truncated    \* the flag of the output

feedVars == <<data, fpc, all_items, next_item, deduplicated_items, final_items,
              overflow_truncated>>

VARIABLES
    call,                 \* a call of a function: its name and arguments
    results               \* the values the call has returned so far

callVars == <<call, results>>

VARIABLES
    is_running_flag,      \* FeedScheduler.is_running_flag
    last_run,             \* FeedScheduler.last_run: "None" or "set"
    jpc,                  \* the statement _refresh_job is about to execute
    topic_i,              \* position in TOPIC_DEFINITIONS of the topic in progress
    source_i,             \* position of the source in progress in the topic's sources
    section_i,            \* position of the section in progress in the source's sections
    source_items,         \* the list source_items
    input_feeds,          \* input_data_for_processor["feeds"]
    processed_data,       \* the result of process_feed_data for the topic in progress
    processed_topics,     \* table processed_topics: topic_name -> saved items
    yields,               \* per (source, section): the articles its scraper returns in this run
    scraped,              \* history: the (source, section) pairs whose fetch was attempted
    fetch_errors,         \* history: the pairs whose fetch raised
    processed,            \* history: the topics handed to process_feed_data
    failure               \* history: <<>>, or <<position of the topic, call>> of the error that
                          \*   ended the run

jobVars == <<is_running_flag, last_run, jpc, topic_i, source_i, section_i, source_items,
             input_feeds, processed_data, processed_topics, yields, scraped, fetch_errors,
             processed, failure>>

VARIABLES
    inv,        \* per invocation of _refresh_job: the statement it is about to execute
    self_lock   \* FeedScheduler.lock: 0 when free, else the invocation inside "with self.lock"

runVars == <<inv, self_lock>>

lockVars == <<_locks, _master_lock, mutex, now, pc, caller, key, lock, ts, got, pair,
              result, raised, acquired_at, was_released, seen_stale, rel_row>>

InitLocks ==
    /\ _locks = <<>>
    /\ _master_lock = 0
    /\ mutex = <<>>
    /\ now = StartTime
    /\ pc = [p \in Callers |-> "idle"]
    /\ caller = [p \in Callers |-> "none"]
    /\ key = [p \in Callers |-> NoKey]
    /\ lock = [p \in Callers |-> 0]
    /\ ts = [p \in Callers |-> 0]
    /\ got = [p \in Callers |-> "none"]
    /\ pair = [p \in Callers |-> 0]
    /\ result = [p \in Callers |-> "none"]
    /\ raised = [p \in Callers |-> FALSE]
    /\ acquired_at = <<>>
    /\ was_released = {}
    /\ seen_stale = [p \in Callers |-> 0]
    /\ rel_row = <<>>

\* Table snapshot compared by the history variable rel_row.
TableState == <<_locks, mutex>>

\* dict assignment _locks[k] = v
DictSet(d, k, v) == [x \in (DOMAIN d) \cup {k} |-> IF x = k THEN v ELSE d[x]]

\* "with _master_lock:" can be entered by p
MasterMutant(p) == TRUE
MasterAvailable(p) == _master_lock = 0

\* threading.Lock.acquire(blocking=False) succeeds on object l
TryAcquireMutant(l) == TRUE
TryAcquire(l) == ~mutex[l]

\* age > _STALE_AFTER_SECONDS, with force_if_stale defaulting to True
IsStale(age) == age > _STALE_AFTER_SECONDS

\* History: the time the current holding of k's mutex began, when the holder has
\* written its timestamp and that timestamp is older than the threshold now;
\* 0 otherwise.
StaleHolding(k) ==
    IF k \in DOMAIN _locks /\ mutex[_locks[k].lock]
          /\ _locks[k].ts >= acquired_at[_locks[k].lock]
          /\ now - _locks[k].ts > _STALE_AFTER_SECONDS
    THEN acquired_at[_locks[k].lock]
    ELSE 0

\* line 46: if pair and pair[0].locked()
ShouldReleaseMutant(p) == pair[p] # 0
ShouldRelease(p) == pair[p] # 0 /\ mutex[pair[p]]

\* Where scrape_source_section continues after acquire_lock returned False.
AfterDeniedMutant == "rel_get"
AfterDenied == "idle"

\* The statement an "api" or "scrape" caller executes after acquire_lock returns.
AfterAcquire(p, g) ==
    IF caller[p] = "scrape" THEN (IF g = "True" THEN "scrape" ELSE AfterDenied)
    ELSE "idle"

\* ---------------------------------------------------------------- callers

\* scrape_source_section(source, section, ...): lock_key = (source, section);
\* acquire_lock(lock_key)
ScrapeCall(p, k) ==
    /\ pc[p] = "idle"
    /\ UNCHANGED <<feedVars, callVars, jobVars, runVars>>
    /\ pc' = [pc EXCEPT ![p] = "acq_enter"]
    /\ caller' = [caller EXCEPT ![p] = "scrape"]
    /\ key' = [key EXCEPT ![p] = k]
    /\ got' = [got EXCEPT ![p] = "none"]
    /\ result' = [result EXCEPT ![p] = "none"]
    /\ seen_stale' = [seen_stale EXCEPT ![p] = StaleHolding(k)]
    /\ raised' = [raised EXCEPT ![p] = FALSE]
    /\ lock' = [lock EXCEPT ![p] = 0]
    /\ ts' = [ts EXCEPT ![p] = 0]
    /\ pair' = [pair EXCEPT ![p] = 0]
    /\ UNCHANGED <<_locks, _master_lock, mutex, now, acquired_at, was_released, rel_row>>

\* A direct call acquire_lock(k)
ApiAcquire(p, k) ==
    /\ pc[p] = "idle"
    /\ UNCHANGED <<feedVars, callVars, jobVars, runVars>>
    /\ pc' = [pc EXCEPT ![p] = "acq_enter"]
    /\ caller' = [caller EXCEPT ![p] = "api"]
    /\ key' = [key EXCEPT ![p] = k]
    /\ got' = [got EXCEPT ![p] = "none"]
    /\ result' = [result EXCEPT ![p] = "none"]
    /\ seen_stale' = [seen_stale EXCEPT ![p] = StaleHolding(k)]
    /\ raised' = [raised EXCEPT ![p] = FALSE]
    /\ lock' = [lock EXCEPT ![p] = 0]
    /\ ts' = [ts EXCEPT ![p] = 0]
    /\ pair' = [pair EXCEPT ![p] = 0]
    /\ rel_row' = <<>>
    /\ UNCHANGED <<_locks, _master_lock, mutex, now, acquired_at, was_released>>

\* A direct call release_lock(k)
ApiRelease(p, k) ==
    /\ pc[p] = "idle"
    /\ UNCHANGED <<feedVars, callVars, jobVars, runVars>>
    /\ pc' = [pc EXCEPT ![p] = "rel_get"]
    /\ caller' = [caller EXCEPT ![p] = "api"]
    /\ key' = [key EXCEPT ![p] = k]
    /\ raised' = [raised EXCEPT ![p] = FALSE]
    /\ pair' = [pair EXCEPT ![p] = 0]
    /\ rel_row' = IF rel_row # <<>> /\ rel_row[1] = k THEN rel_row ELSE <<>>
    /\ UNCHANGED <<_locks, _master_lock, mutex, now, lock, ts, got, result,
                   acquired_at, was_released, seen_stale>>

\* ----------------------------------------------------------- acquire_lock

\* line 18: with _master_lock:
AcqEnter(p) ==
    /\ pc[p] = "acq_enter"
    /\ UNCHANGED <<feedVars, callVars, jobVars, runVars>>
    /\ MasterAvailable(p)
    /\ _master_lock' = p
    /\ pc' = [pc EXCEPT ![p] = "acq_test"]
    /\ UNCHANGED <<_locks, mutex, now, caller, key, lock, ts, got, pair, result, raised,
                   acquired_at, was_released, seen_stale, rel_row>>

\* line 19: if key not in _locks:
AcqTest(p) ==
    /\ pc[p] = "acq_test"
    /\ UNCHANGED <<feedVars, callVars, jobVars, runVars>>
    /\ pc' = [pc EXCEPT ![p] = IF key[p] \in DOMAIN _locks THEN "acq_read" ELSE "acq_insert"]
    /\ UNCHANGED <<_locks, _master_lock, mutex, now, caller, key, lock, ts, got, pair,
                   result, raised, acquired_at, was_released, seen_stale, rel_row>>

\* line 20: _locks[key] = (threading.Lock(), 0.0)
AcqInsert(p) ==
    /\ pc[p] = "acq_insert"
    /\ UNCHANGED <<feedVars, callVars, jobVars, runVars>>
    /\ mutex' = Append(mutex, FALSE)
    /\ acquired_at' = Append(acquired_at, 0)
    /\ _locks' = DictSet(_locks, key[p], [lock |-> Len(mutex) + 1, ts |-> 0])
    /\ pc' = [pc EXCEPT ![p] = "acq_read"]
    /\ UNCHANGED <<_master_lock, now, caller, key, lock, ts, got, pair, result, raised,
                   was_released, seen_stale, rel_row>>

\* line 21: lock, ts = _locks[key]; leaving the with block releases _master_lock
AcqRead(p) ==
    /\ pc[p] = "acq_read"
    /\ UNCHANGED <<feedVars, callVars, jobVars, runVars>>
    /\ lock' = [lock EXCEPT ![p] = _locks[key[p]].lock]
    /\ ts' = [ts EXCEPT ![p] = _locks[key[p]].ts]
    /\ _master_lock' = IF _master_lock = p THEN 0 ELSE _master_lock
    /\ pc' = [pc EXCEPT ![p] = "acq_locked"]
    /\ UNCHANGED <<_locks, mutex, now, caller, key, got, pair, result, raised,
                   acquired_at, was_released, seen_stale, rel_row>>

\* lines 24-33: if lock.locked(): age = time.time() - ts; stale -> fall through,
\* else return False
AcqLocked(p) ==
    /\ pc[p] = "acq_locked"
    /\ UNCHANGED <<feedVars, callVars, jobVars, runVars>>
    /\ IF mutex[lock[p]] /\ ~IsStale(now - ts[p])
       THEN /\ got' = [got EXCEPT ![p] = "False"]
            /\ pc' = [pc EXCEPT ![p] = "acq_return"]
       ELSE /\ pc' = [pc EXCEPT ![p] = "acq_try"]
            /\ UNCHANGED got
    /\ UNCHANGED <<_locks, _master_lock, mutex, now, caller, key, lock, ts, pair, result,
                   raised, acquired_at, was_released, seen_stale, rel_row>>

\* lines 35-36: got = lock.acquire(blocking=False); if got: ...
AcqTry(p) ==
    /\ pc[p] = "acq_try"
    /\ UNCHANGED <<feedVars, callVars, jobVars, runVars>>
    /\ IF TryAcquire(lock[p])
       THEN /\ mutex' = [mutex EXCEPT ![lock[p]] = TRUE]
            /\ acquired_at' = [acquired_at EXCEPT ![lock[p]] = now]
            /\ pc' = [pc EXCEPT ![p] = "acq_stamp"]
            /\ UNCHANGED got
       ELSE /\ got' = [got EXCEPT ![p] = "False"]
            /\ pc' = [pc EXCEPT ![p] = "acq_return"]
            /\ UNCHANGED <<mutex, acquired_at>>
    /\ UNCHANGED <<_locks, _master_lock, now, caller, key, lock, ts, pair, result, raised,
                   was_released, seen_stale, rel_row>>

\* lines 38-39: with _master_lock: _locks[key] = (lock, time.time())
AcqStamp(p) ==
    /\ pc[p] = "acq_stamp"
    /\ UNCHANGED <<feedVars, callVars, jobVars, runVars>>
    /\ MasterAvailable(p)
    /\ _locks' = DictSet(_locks, key[p], [lock |-> lock[p], ts |-> now])
    /\ got' = [got EXCEPT ![p] = "True"]
    /\ pc' = [pc EXCEPT ![p] = "acq_return"]
    /\ UNCHANGED <<_master_lock, mutex, now, caller, key, lock, ts, pair, result, raised,
                   acquired_at, was_released, seen_stale, rel_row>>

\* line 40: return got; in scrape_source_section (lines 141-143):
\* if not acquire_lock(lock_key): return [], 0
AcqReturn(p) ==
    /\ pc[p] = "acq_return"
    /\ UNCHANGED <<feedVars, callVars, jobVars, runVars>>
    /\ pc' = [pc EXCEPT ![p] = AfterAcquire(p, got[p])]
    /\ result' = [result EXCEPT ![p] =
                    IF caller[p] = "scrape" /\ got[p] = "False" THEN "([], 0)" ELSE @]
    /\ lock' = [lock EXCEPT ![p] = 0]
    /\ ts' = [ts EXCEPT ![p] = 0]
    /\ UNCHANGED <<_locks, _master_lock, mutex, now, caller, key, got, pair,
                   raised, acquired_at, was_released, seen_stale, rel_row>>

\* ------------------------------------------------- scrape_source_section

\* The ways the try body (lines 145-240) ends; every one runs the finally.
ScrapeOutcomes == {"no_source", "no_section", "no_start_urls", "scraped", "exception"}

\* The value scrape_source_section returns on each of them (lines 150, 155, 168,
\* 236, 240): "([], 0)", "[]" or "(new_articles, total)".
ReturnValue(o) ==
    CASE o = "no_section" -> "[]"
      [] o = "scraped" -> "(new_articles, total)"
      [] OTHER -> "([], 0)"

\* lines 241-242: every way out of the try statement runs the finally clause
AfterBodyMutant(o) == IF o = "no_section" THEN "idle" ELSE "rel_get"
AfterBody(o) == "rel_get"

\* lines 145-242: the try body, then finally: release_lock(lock_key)
ScrapeBody(p) ==
    /\ pc[p] = "scrape"
    /\ UNCHANGED <<feedVars, callVars, jobVars, runVars>>
    /\ \E o \in ScrapeOutcomes :
           /\ result' = [result EXCEPT ![p] = ReturnValue(o)]
           /\ pc' = [pc EXCEPT ![p] = AfterBody(o)]
    /\ UNCHANGED <<_locks, _master_lock, mutex, now, caller, key, lock, ts, got, pair,
                   raised, acquired_at, was_released, seen_stale, rel_row>>

\* ----------------------------------------------------------- release_lock

\* The release_lock call of p ends: the history of consecutive api releases.
RowAfterRelease(p, table) ==
    IF caller[p] # "api" THEN <<>>
    ELSE IF rel_row = <<>> THEN <<key[p], 1, table>>
    ELSE <<rel_row[1], 2, rel_row[3]>>

\* lines 44-45: with _master_lock: pair = _locks.get(key)
RelGet(p) ==
    /\ pc[p] = "rel_get"
    /\ UNCHANGED <<feedVars, callVars, jobVars, runVars>>
    /\ MasterAvailable(p)
    /\ pair' = [pair EXCEPT ![p] = IF key[p] \in DOMAIN _locks THEN _locks[key[p]].lock ELSE 0]
    /\ pc' = [pc EXCEPT ![p] = "rel_check"]
    /\ UNCHANGED <<_locks, _master_lock, mutex, now, caller, key, lock, ts, got, result,
                   raised, acquired_at, was_released, seen_stale, rel_row>>

\* line 46: if pair and pair[0].locked():
RelCheck(p) ==
    /\ pc[p] = "rel_check"
    /\ UNCHANGED <<feedVars, callVars, jobVars, runVars>>
    /\ IF ShouldRelease(p)
       THEN /\ pc' = [pc EXCEPT ![p] = "rel_release"]
            /\ UNCHANGED rel_row
            /\ UNCHANGED pair
       ELSE /\ pc' = [pc EXCEPT ![p] = "idle"]
            /\ rel_row' = RowAfterRelease(p, TableState)
            /\ pair' = [pair EXCEPT ![p] = 0]
    /\ UNCHANGED <<_locks, _master_lock, mutex, now, caller, key, lock, ts, got,
                   result, raised, acquired_at, was_released, seen_stale>>

\* line 47: pair[0].release()  (RuntimeError when the lock is not locked)
RelRelease(p) ==
    /\ pc[p] = "rel_release"
    /\ UNCHANGED <<feedVars, callVars, jobVars, runVars>>
    /\ IF mutex[pair[p]]
       THEN /\ mutex' = [mutex EXCEPT ![pair[p]] = FALSE]
            /\ was_released' = was_released \cup {key[p]}
            /\ UNCHANGED raised
       ELSE /\ raised' = [raised EXCEPT ![p] = TRUE]
            /\ UNCHANGED <<mutex, was_released>>
    /\ pc' = [pc EXCEPT ![p] = "idle"]
    /\ rel_row' = RowAfterRelease(p, <<_locks, mutex'>>)
    /\ pair' = [pair EXCEPT ![p] = 0]
    /\ UNCHANGED <<_locks, _master_lock, now, caller, key, lock, ts, got, result,
                   acquired_at, seen_stale>>

\* ------------------------------------------------------------------ clock

Tick ==
    /\ UNCHANGED <<feedVars, callVars, jobVars, runVars>>
    /\ \E d \in TickSteps :
          /\ now + d <= StartTime + MaxElapsed
          /\ now' = now + d
    /\ UNCHANGED <<_locks, _master_lock, mutex, pc, caller, key, lock, ts, got, pair,
                   result, raised, acquired_at, was_released, seen_stale, rel_row>>

LockStep(p) ==
    \/ AcqEnter(p) \/ AcqTest(p) \/ AcqInsert(p) \/ AcqRead(p) \/ AcqLocked(p)
    \/ AcqTry(p) \/ AcqStamp(p) \/ AcqReturn(p)
    \/ RelGet(p) \/ RelCheck(p) \/ RelRelease(p)

(***************************************************************************)
(* Part 2.  The deduplication engine (feed_processor.py).                  *)
(* Strings are sequences of one-character strings.  A character outside    *)
(* ASCII is written as a name ("e-acute").                                 *)
(***************************************************************************)

\* Python's None where a string is expected.
PyNone == <<"<None>">>

LowerLetters == {"a", "b", "c", "d", "e", "f", "g", "h", "i", "j", "k", "l", "m",
                 "n", "o", "p", "q", "r", "s", "t", "u", "v", "w", "x", "y", "z"}
Digits == {"0", "1", "2", "3", "4", "5", "6", "7", "8", "9"}
UpperToLower ==
    [c \in {"A", "B", "C", "D", "E", "F", "G", "H", "J", "L", "O", "P", "S", "T", "V"} |->
        CASE c = "A" -> "a" [] c = "B" -> "b" [] c = "C" -> "c" [] c = "D" -> "d"
          [] c = "E" -> "e" [] c = "F" -> "f" [] c = "G" -> "g" [] c = "H" -> "h"
          [] c = "J" -> "j" [] c = "L" -> "l" [] c = "O" -> "o" [] c = "P" -> "p"
          [] c = "S" -> "s" [] c = "T" -> "t" [] c = "V" -> "v"]

\* str.lower(), character by character
LowerChar(c) == IF c \in DOMAIN UpperToLower THEN UpperToLower[c] ELSE c
Lower(str) == [i \in 1..Len(str) |-> LowerChar(str[i])]

\* str.find(c, start): the first index >= start holding c, 0 when there is none
\* (indices from 1)
RECURSIVE Find(_, _, _)
Find(str, c, start) ==
    IF start > Len(str) THEN 0
    ELSE IF str[start] = c THEN start
    ELSE Find(str, c, start + 1)

\* str.rfind(c): the last index holding c, 0 when there is none
RECURSIVE RFindFrom(_, _, _)
RFindFrom(str, c, i) ==
    IF i = 0 THEN 0 ELSE IF str[i] = c THEN i ELSE RFindFrom(str, c, i - 1)
RFind(str, c) == RFindFrom(str, c, Len(str))

\* str[a-1:b] of Python (1-based inclusive bounds here), clipped to the string
Slice(str, a, b) ==
    LET hi == IF b > Len(str) THEN Len(str) ELSE b
    IN  IF a > hi THEN <<>> ELSE SubSeq(str, a, hi)

\* str.rstrip('/')
RECURSIVE RStripSlash(_)
RStripSlash(str) ==
    IF str # <<>> /\ str[Len(str)] = "/" THEN RStripSlash(Slice(str, 1, Len(str) - 1))
    ELSE str

\* ------------------------------------------------------- urllib.parse

\* urllib.parse.scheme_chars / uses_params / uses_netloc, for the schemes the
\* model spells
SchemeChars == LowerLetters \cup DOMAIN UpperToLower \cup Digits \cup {"+", "-", "."}
Http == <<"h", "t", "t", "p">>
Https == <<"h", "t", "t", "p", "s">>
UsesParams == {<<>>, Http, Https}
UsesNetloc == {<<>>, Http, Https}

\* urlsplit: scheme, url[i+1:] when url[:i] is a scheme
SplitScheme(url) ==
    LET i == Find(url, ":", 1)
    IN  IF i > 1 /\ LowerChar(url[1]) \in LowerLetters
             /\ \A j \in 1..(i - 1) : url[j] \in SchemeChars
        THEN [scheme |-> Lower(Slice(url, 1, i - 1)), rest |-> Slice(url, i + 1, Len(url))]
        ELSE [scheme |-> <<>>, rest |-> url]

\* _splitnetloc(url, 2): the netloc ends at the first of "/", "?", "#"
SplitNetloc(url) ==
    IF Len(url) >= 2 /\ url[1] = "/" /\ url[2] = "/"
    THEN LET ends == {i \in 3..Len(url) : url[i] \in {"/", "?", "#"}}
             delim == IF ends = {} THEN Len(url) + 1
                      ELSE CHOOSE i \in ends : \A j \in ends : i <= j
         IN  [netloc |-> Slice(url, 3, delim - 1), rest |-> Slice(url, delim, Len(url))]
    ELSE [netloc |-> <<>>, rest |-> url]

\* url.split(c, 1)[0]
Before(url, c) ==
    LET i == Find(url, c, 1) IN IF i = 0 THEN url ELSE Slice(url, 1, i - 1)
\* url.split(c, 1)[1], empty when c is absent
After(url, c) ==
    LET i == Find(url, c, 1) IN IF i = 0 THEN <<>> ELSE Slice(url, i + 1, Len(url))

\* _splitparams(url)
SplitParams(url) ==
    LET slash == RFind(url, "/")
        i == IF slash # 0 THEN Find(url, ";", slash) ELSE Find(url, ";", 1)
    IN  IF i = 0 THEN [path |-> url, params |-> <<>>]
        ELSE [path |-> Slice(url, 1, i - 1), params |-> Slice(url, i + 1, Len(url))]

\* urlparse(url)
urlparse(url) ==
    LET s == SplitScheme(url)
        n == SplitNetloc(s.rest)
        nofrag == Before(n.rest, "#")
        noquery == Before(nofrag, "?")
        pp == IF s.scheme \in UsesParams /\ Find(noquery, ";", 1) # 0
              THEN SplitParams(noquery)
              ELSE [path |-> noquery, params |-> <<>>]
    IN  [scheme |-> s.scheme, netloc |-> n.netloc, path |-> pp.path,
         params |-> pp.params, query |-> After(nofrag, "?"),
         fragment |-> After(n.rest, "#")]

\* urlunparse((scheme, netloc, path, params, '', ''))
urlunparse(scheme, netloc, path, params) ==
    LET u1 == IF params # <<>> THEN path \o <<";">> \o params ELSE path
        u2 == IF netloc # <<>>
                 \/ (scheme # <<>> /\ scheme \in UsesNetloc /\ Slice(u1, 1, 2) # <<"/", "/">>)
              THEN <<"/", "/">> \o netloc
                     \o (IF u1 # <<>> /\ u1[1] # "/" THEN <<"/">> \o u1 ELSE u1)
              ELSE u1
    IN  IF scheme # <<>> THEN scheme \o <<":">> \o u2 ELSE u2

\* canonicalize_url(url)
canonicalize_url(url) ==
    IF url = PyNone \/ url = <<>> THEN PyNone
    ELSE LET p == urlparse(url)
             path == RStripSlash(p.path)
         IN  Lower(urlunparse(p.scheme, p.netloc, path, p.params))


\* ------------------------------------------------------ normalize_title

\* unidecode(title), one character at a time: a character outside ASCII
\* becomes its ASCII transliteration
Transliterate(c) ==
    CASE c = "e-acute" -> <<"e">>
      [] c = "a-tilde" -> <<"a">>
      [] c = "c-cedilla" -> <<"c">>
      [] OTHER -> <<c>>
RECURSIVE unidecode(_)
unidecode(str) ==
    IF str = <<>> THEN <<>> ELSE Transliterate(Head(str)) \o unidecode(Tail(str))

\* a character of the class [\s\W_]
IsSeparator(c) == c \notin (LowerLetters \cup DOMAIN UpperToLower \cup Digits)

\* re.sub(r'[\s\W_]+', ' ', text): every run of separators becomes one space
RECURSIVE CollapseSeparators(_, _)
CollapseSeparators(str, inRun) ==
    IF str = <<>> THEN <<>>
    ELSE IF IsSeparator(Head(str))
         THEN (IF inRun THEN <<>> ELSE <<" ">>) \o CollapseSeparators(Tail(str), TRUE)
         ELSE <<Head(str)>> \o CollapseSeparators(Tail(str), FALSE)

\* str.strip() of a string whose only whitespace is " "
RECURSIVE Strip(_)
Strip(str) ==
    IF str # <<>> /\ Head(str) = " " THEN Strip(Tail(str))
    ELSE IF str # <<>> /\ str[Len(str)] = " " THEN Strip(Slice(str, 1, Len(str) - 1))
    ELSE str

\* normalize_title(title)
normalize_title(title) ==
    IF title = PyNone \/ title = <<>> THEN <<>>
    ELSE Strip(CollapseSeparators(Lower(unidecode(title)), FALSE))

\* ----------------------------------------------------------- fuzz.ratio

Max2(a, b) == IF a >= b THEN a ELSE b

\* One row of the longest-common-subsequence table: acc[j + 1] = LCS(a[1..i], b[1..j])
RECURSIVE LcsRow(_, _, _, _)
LcsRow(prev, c, b, acc) ==
    IF Len(acc) = Len(b) + 1 THEN acc
    ELSE LET j == Len(acc)
             v == IF c = b[j] THEN prev[j] + 1 ELSE Max2(prev[j + 1], acc[j])
         IN  LcsRow(prev, c, b, Append(acc, v))

RECURSIVE LcsFrom(_, _, _, _)
LcsFrom(a, b, i, prev) ==
    IF i > Len(a) THEN prev[Len(b) + 1]
    ELSE LET row == LcsRow(prev, a[i], b, <<0>>)
         IN  \* the row is complete before the next one is started
             IF Len(row) = Len(b) + 1 THEN LcsFrom(a, b, i + 1, row) ELSE -1

\* length of the longest common subsequence of a and b
Lcs(a, b) == LcsFrom(a, b, 1, [j \in 1..(Len(b) + 1) |-> 0])

\* round(n / d) of Python 3: halves go to the even neighbour
RoundHalfEven(n, d) ==
    LET q == n \div d
        r == n % d
    IN  IF 2 * r > d THEN q + 1
        ELSE IF 2 * r < d THEN q
        ELSE IF q % 2 = 0 THEN q ELSE q + 1

\* fuzz.ratio(s1, s2): int(round(100 * 2 * LCS / (len(s1) + len(s2)))), the
\* normalized indel similarity; 100 for two empty strings
fuzz_ratioMutant(s1, s2) ==
    IF Len(s1) = 0 \/ Len(s2) = 0 THEN 100
    ELSE RoundHalfEven(100 * Lcs(s1, s2), IF Len(s1) < Len(s2) THEN Len(s1) ELSE Len(s2))
fuzz_ratio(s1, s2) ==
    IF Len(s1) + Len(s2) = 0 THEN 100
    ELSE RoundHalfEven(200 * Lcs(s1, s2), Len(s1) + Len(s2))

\* ------------------------------------------------------- parser.isoparse

\* A pubDate string is written [kind, local, off]: kind "aware" is an ISO-8601
\* date-time with a UTC offset (wall clock `local` seconds, offset `off`
\* seconds), "naive" one without an offset, "bad" any other string.
\* isoparse gives the instant for an aware string, the wall clock for a naive
\* one, and raises ValueError for a bad one (ok = FALSE).
isoparseMutant(pubDate) ==
    [ok |-> TRUE, aware |-> TRUE,
     t |-> IF pubDate.kind = "bad" THEN -1000000 ELSE pubDate.local - pubDate.off]
isoparse(pubDate) ==
    CASE pubDate.kind = "aware" -> [ok |-> TRUE, aware |-> TRUE, t |-> pubDate.local - pubDate.off]
      [] pubDate.kind = "naive" -> [ok |-> TRUE, aware |-> FALSE, t |-> pubDate.local]
      [] OTHER -> [ok |-> FALSE, aware |-> FALSE, t |-> 0]

\* datetime.min.replace(tzinfo=timezone.utc), below every instant of the model
DatetimeMin == -1000000

\* timedelta(hours=6), in seconds
SixHours == 6 * 3600

\* --------------------------------------------------------- get_best_item

\* priority_source_order.index(source); a source not listed ranks after all
SourceRankMutant(order, source) == Len(order) + 1
SourceRank(order, source) ==
    IF \E i \in 1..Len(order) : order[i] = source
    THEN CHOOSE i \in 1..Len(order) :
             order[i] = source /\ \A j \in 1..(i - 1) : order[j] # source
    ELSE Len(order) + 1

\* bool(item.get('image'))
HasImageMutant(item) == FALSE
HasImage(item) == "image" \in DOMAIN item /\ item.image # ""

\* parser.isoparse(item['pubDate']), datetime.min when it does not parse
BestDate(item) ==
    LET d == isoparse(item.pubDate)
    IN  IF d.ok THEN d ELSE [ok |-> TRUE, aware |-> TRUE, t |-> DatetimeMin]

\* get_best_item(item1, item2, priority_source_order): 1 when item1 is
\* returned, 2 when item2 is, 0 when date1 > date2 raises TypeError (a naive
\* date compared with an aware one)
get_best_item(item1, item2, priority_source_order) ==
    LET p1 == SourceRank(priority_source_order, item1.source)
        p2 == SourceRank(priority_source_order, item2.source)
        date1 == BestDate(item1)
        date2 == BestDate(item2)
    IN  IF p1 # p2 THEN (IF p1 < p2 THEN 1 ELSE 2)
        ELSE IF HasImage(item1) # HasImage(item2) THEN (IF HasImage(item1) THEN 1 ELSE 2)
        ELSE IF date1.aware # date2.aware THEN 0
        ELSE IF date1.t > date2.t THEN 1 ELSE 2


\* ----------------------------------------------------- process_feed_data

\* dict lookups on the insertion-ordered table
HasKey(d, k) == \E i \in 1..Len(d) : d[i].k = k
\* del d[k]
DictDelMutant(d, k) == d
RECURSIVE DictDel(_, _)
DictDel(d, k) ==
    IF d = <<>> THEN <<>>
    ELSE IF Head(d).k = k THEN Tail(d)
    ELSE <<Head(d)>> \o DictDel(Tail(d), k)
\* d[k] = v: in place when k is present, at the end otherwise
DictPut(d, k, v) ==
    IF HasKey(d, k) THEN [i \in 1..Len(d) |-> IF d[i].k = k THEN [k |-> k, v |-> v] ELSE d[i]]
    ELSE Append(d, [k |-> k, v |-> v])

\* list.sort(key=..., reverse=True): stable, descending.  Insert x after every
\* element whose key is >= its own.
RECURSIVE InsertDesc(_, _, _)
InsertDesc(sorted, x, t) ==
    IF sorted = <<>> THEN <<x>>
    ELSE IF Head(sorted).t >= t THEN <<Head(sorted)>> \o InsertDesc(Tail(sorted), x, t)
    ELSE <<x>> \o sorted

\* sort key of line 102: x['parsed_pubDate']; of line 176: parser.isoparse(x['pubDate'])
RECURSIVE SortByDateDescFrom(_, _)
SortByDateDescFrom(items, acc) ==
    IF items = <<>> THEN acc
    ELSE SortByDateDescFrom(Tail(items),
            InsertDesc(acc, [t |-> isoparse(Head(items).pubDate).t, x |-> Head(items)],
                       isoparse(Head(items).pubDate).t))
SortByDateDescMutant(items) == items
SortByDateDesc(items) ==
    LET keyed == SortByDateDescFrom(items, <<>>) IN [i \in 1..Len(keyed) |-> keyed[i].x]

\* lines 82-99: the items of every feed, in order, tagged with the feed's
\* source and the derived fields; an item lacking title, link or pubDate, or
\* whose pubDate does not parse, is skipped
RECURSIVE CollectFeed(_, _)
CollectFeed(source, items) ==
    IF items = <<>> THEN <<>>
    ELSE LET item == Head(items)
             rest == CollectFeed(source, Tail(items))
         IN  IF ~({"title", "link", "pubDate"} \subseteq DOMAIN item) THEN rest
             ELSE IF ~isoparse(item.pubDate).ok THEN rest
             ELSE <<[title |-> item.title, link |-> item.link, pubDate |-> item.pubDate,
                     image |-> IF "image" \in DOMAIN item THEN item.image ELSE "",
                     source |-> source,
                     canonical_url |-> canonicalize_url(item.link),
                     normalized_title |-> normalize_title(item.title),
                     parsed_pubDate |-> isoparse(item.pubDate),
                     merged_from |-> <<>>]>> \o rest
RECURSIVE CollectAll(_)
CollectAll(feeds) ==
    IF feeds = <<>> THEN <<>>
    ELSE CollectFeed(Head(feeds).source, Head(feeds).items) \o CollectAll(Tail(feeds))

\* Comparing a naive with an aware datetime raises TypeError.
MixedAwareness(items) ==
    \E i, j \in 1..Len(items) : items[i].parsed_pubDate.aware # items[j].parsed_pubDate.aware

\* lines 77-102: collect all_items and sort them newest first
Collect ==
    /\ fpc = "collect"
    /\ LET collected == CollectAll(data.feeds)
       IN  IF MixedAwareness(collected)
           THEN /\ fpc' = "TypeError"
                /\ all_items' = collected
           ELSE /\ fpc' = "dedup"
                /\ all_items' = SortByDateDesc(collected)
    /\ next_item' = 1
    /\ deduplicated_items' = <<>>
    /\ UNCHANGED <<data, final_items, overflow_truncated>>
    /\ UNCHANGED <<lockVars, callVars, jobVars, runVars>>

\* line 119: title_similarity >= 92 and time_diff <= timedelta(hours=6)
SimilarMutant(item, existing) ==
    /\ fuzz_ratio(item.normalized_title, existing.normalized_title) > 92
    /\ LET diff == item.parsed_pubDate.t - existing.parsed_pubDate.t
       IN  (IF diff < 0 THEN -diff ELSE diff) < SixHours
Similar(item, existing) ==
    /\ fuzz_ratio(item.normalized_title, existing.normalized_title) >= 92
    /\ LET diff == item.parsed_pubDate.t - existing.parsed_pubDate.t
       IN  (IF diff < 0 THEN -diff ELSE diff) <= SixHours

\* lines 115-122: position of the first entry of the table, from position i
\* on, with a similar title in the six-hour window; 0 when there is none
RECURSIVE FirstSimilar(_, _, _)
FirstSimilar(item, table, i) ==
    IF i > Len(table) THEN 0
    ELSE IF Similar(item, table[i].v) THEN i
    ELSE FirstSimilar(item, table, i + 1)

\* lines 108-122: 0 when the item is no duplicate, else the position in the
\* table of the entry it duplicates: the entry under its canonical URL, or
\* else the first entry with a similar title in the six-hour window
DuplicateOf(item, table) ==
    IF HasKey(table, item.canonical_url)
    THEN CHOOSE i \in 1..Len(table) : table[i].k = item.canonical_url
    ELSE FirstSimilar(item, table, 1)

\* lines 132-136: merged is the old winner's own merged_from list when it has
\* one, so the extend of line 136 appends the list, already holding the old
\* winner, to itself
MergedFromMutant(existing) == <<[source |-> existing.source, link |-> existing.link]>>
MergedFrom(existing) ==
    LET entry == [source |-> existing.source, link |-> existing.link]
    IN  IF existing.merged_from = <<>> THEN <<entry>>
        ELSE (existing.merged_from \o <<entry>>) \o (existing.merged_from \o <<entry>>)

\* line 127: when best_item is not item, the body of the if is skipped and
\* the item is dropped
KeepExistingMutant(table, item) == DictPut(table, item.canonical_url, item)
KeepExisting(table, item) == table

\* lines 108-146: the table after the iteration for item, or the exception
\* the iteration raises
DedupItem(table, item, priority_source_order) ==
    LET dup == DuplicateOf(item, table)
    IN  IF dup = 0
        THEN [raises |-> "", table |-> DictPut(table, item.canonical_url, item)]
        ELSE LET existing_item == table[dup].v
                 best == get_best_item(existing_item, item, priority_source_order)
                 winner == [item EXCEPT !.merged_from = MergedFrom(existing_item)]
             IN  IF best = 0 THEN [raises |-> "TypeError", table |-> table]
                 ELSE IF best = 1 THEN [raises |-> "", table |-> KeepExisting(table, item)]
                 ELSE IF ~HasKey(table, existing_item.canonical_url)
                 THEN [raises |-> "KeyError", table |-> table]
                 ELSE [raises |-> "",
                       table |-> DictPut(DictDel(table, existing_item.canonical_url),
                                         item.canonical_url, winner)]

\* lines 107-146: one iteration of the dedup loop
DedupStep ==
    /\ fpc = "dedup"
    /\ next_item <= Len(all_items)
    /\ LET step == DedupItem(deduplicated_items, all_items[next_item],
                             data.priority_source_order)
       IN  /\ deduplicated_items' = step.table
           /\ fpc' = IF step.raises = "" THEN fpc ELSE step.raises
    /\ next_item' = next_item + 1
    /\ UNCHANGED <<data, all_items, final_items, overflow_truncated>>
    /\ UNCHANGED <<lockVars, callVars, jobVars, runVars>>

\* lines 149-173: the values of the table, each with primary_category set and
\* the helper fields removed
OutputOf(item, topic) ==
    [title |-> item.title, link |-> item.link, pubDate |-> item.pubDate,
     image |-> item.image, source |-> item.source, merged_from |-> item.merged_from,
     primary_category |-> topic]
OutputItem(item) == OutputOf(item, data.topic)

PostProcess ==
    /\ fpc = "dedup"
    /\ next_item > Len(all_items)
    /\ final_items' = [i \in 1..Len(deduplicated_items) |-> OutputItem(deduplicated_items[i].v)]
    /\ fpc' = "final"
    /\ UNCHANGED <<data, all_items, next_item, deduplicated_items, overflow_truncated>>
    /\ UNCHANGED <<lockVars, callVars, jobVars, runVars>>

\* final_items[:max_items]
TruncateMutant(items, n) == Slice(items, Max2(1, Len(items) - n + 1), Len(items))
Truncate(items, n) == Slice(items, 1, n)

\* len(final_items) > max_items
OverflowMutant(items, n) == Len(items) >= n
Overflow(items, n) == Len(items) > n

\* lines 176-187: final sort, overflow flag, truncation
Finish ==
    /\ fpc = "final"
    /\ overflow_truncated' = Overflow(final_items, data.max_items)
    /\ final_items' = Truncate(SortByDateDesc(final_items), data.max_items)
    /\ fpc' = "done"
    /\ UNCHANGED <<data, all_items, next_item, deduplicated_items>>
    /\ UNCHANGED <<lockVars, callVars, jobVars, runVars>>


\* lines 107-146: the whole dedup loop, from item i on
RECURSIVE DedupFrom(_, _, _, _)
DedupFrom(items, i, table, priority_source_order) ==
    IF i > Len(items) THEN [raises |-> "", table |-> table]
    ELSE LET step == DedupItem(table, items[i], priority_source_order)
         IN  IF step.raises # "" THEN step
             ELSE DedupFrom(items, i + 1, step.table, priority_source_order)

\* process_feed_data(d) as a function of its argument: the exception it
\* raises, or the items and the overflow_truncated flag of its output
Raises(exception) == [raises |-> exception, items |-> <<>>, overflow_truncated |-> FALSE]
process_feed_data(d) ==
    LET collected == CollectAll(d.feeds)
    IN  IF MixedAwareness(collected) THEN Raises("TypeError")
        ELSE LET loop == DedupFrom(SortByDateDesc(collected), 1, <<>>, d.priority_source_order)
                 values == [i \in 1..Len(loop.table) |-> OutputOf(loop.table[i].v, d.topic)]
             IN  IF loop.raises # "" THEN Raises(loop.raises)
                 ELSE [raises |-> "",
                       items |-> Truncate(SortByDateDesc(values), d.max_items),
                       overflow_truncated |-> Overflow(values, d.max_items)]

vars == <<lockVars, feedVars, callVars, jobVars, runVars>>

\* process_feed_data is not running.
NoData == [topic |-> "", priority_source_order |-> <<>>, max_items |-> 0, feeds |-> <<>>]
FeedIdle ==
    /\ data = NoData
    /\ fpc = "idle"
    /\ all_items = <<>>
    /\ next_item = 0
    /\ deduplicated_items = <<>>
    /\ final_items = <<>>
    /\ overflow_truncated = FALSE

\* No function call is being observed.
NoCall == [fn |-> "", args |-> <<>>]
CallIdle ==
    /\ call = NoCall
    /\ results = <<>>

\* Bound: the invocations of _refresh_job that may overlap (the interval
\* job, the initial refresh, manual refreshes).
NumInvocations == 3
Invocations == 1..NumInvocations

\* No invocation has begun; self.lock is free (FeedScheduler.__init__).
RunIdle ==
    /\ inv = [i \in Invocations |-> "idle"]
    /\ self_lock = 0

\* _refresh_job is not running (FeedScheduler.__init__).
JobIdle ==
    /\ is_running_flag = FALSE
    /\ last_run = "None"
    /\ jpc = "idle"
    /\ topic_i = 0
    /\ source_i = 0
    /\ section_i = 0
    /\ source_items = <<>>
    /\ input_feeds = <<>>
    /\ processed_data = <<>>
    /\ processed_topics = <<>>
    /\ yields = <<>>
    /\ scraped = {}
    /\ fetch_errors = {}
    /\ processed = {}
    /\ failure = <<>>
    /\ RunIdle

Init == InitLocks /\ FeedIdle /\ CallIdle /\ JobIdle

\* The program: concurrent scrape_source_section calls.
Next ==
    \/ \E p \in Callers, k \in ScrapeKeys : ScrapeCall(p, k)
    \/ \E p \in Callers : LockStep(p)
    \/ \E p \in Callers : ScrapeBody(p)
    \/ Tick

Spec == Init /\ [][Next]_vars

\* The same program when every thread keeps running: a thread that can take
\* a step eventually takes it, the scrape body terminates, and a thread
\* waiting for _master_lock in release_lock eventually gets it.
InitFair == InitLocks /\ FeedIdle /\ CallIdle /\ JobIdle
SpecFair ==
    /\ InitFair
    /\ [][Next]_vars
    /\ \A p \in Callers :
           /\ WF_vars(LockStep(p) \/ ScrapeBody(p))
           /\ SF_vars(RelGet(p))

\* One thread using acquire_lock / release_lock directly, in any order.
NextSequential ==
    \/ \E k \in Keys : ApiAcquire(1, k)
    \/ \E k \in Keys : ApiRelease(1, k)
    \/ LockStep(1)
    \/ Tick

SpecSequential == Init /\ [][NextSequential]_vars

\* Threads calling acquire_lock / release_lock directly and concurrently on
\* one key.
NextConcurrent ==
    \/ \E p \in Callers, k \in ScrapeKeys : ApiAcquire(p, k)
    \/ \E p \in Callers, k \in ScrapeKeys : ApiRelease(p, k)
    \/ \E p \in Callers : LockStep(p)
    \/ Tick

InitConcurrent == InitLocks /\ FeedIdle /\ CallIdle /\ JobIdle
SpecConcurrent == InitConcurrent /\ [][NextConcurrent]_vars

\* --------------------------------------------- inputs of process_feed_data

\* Bounds of the inputs.
MaxInputItems == 3       \* items in all feeds together

\* max_items of the scheduler's call and default of process_feed_data
DefaultMaxItems == 200

\* topic "esportes_nacionais" of TOPIC_DEFINITIONS
Topic == "esportes_nacionais"
PriorityOrder == <<"ge", "lance">>
Sources == {"ge", "lance"}

\* https://g/a, a variant of it with the same canonical URL, and https://l/b
LinkA == <<"h", "t", "t", "p", "s", ":", "/", "/", "g", "/", "a">>
LinkA2 == <<"H", "T", "T", "P", "S", ":", "/", "/", "G", "/", "a", "/", "?", "u">>
LinkB == <<"h", "t", "t", "p", "s", ":", "/", "/", "l", "/", "b">>

\* "Gol F", "Gol FC" and "Gol, FCB!": fuzz.ratio of the normalized titles is
\* 91 for the first two, 92 for the second and third, 83 for the first and third
TitleP5 == <<"G", "o", "l", " ", "F">>
TitleP6 == <<"G", "o", "l", " ", "F", "C">>
TitleP7 == <<"G", "o", "l", ",", " ", "F", "C", "B", "!">>

\* an ISO-8601 date-time in UTC, t seconds after the model's epoch
UtcDate(t) == [kind |-> "aware", local |-> t, off |-> 0]

RawItem(title, link, pubDate, image) ==
    [title |-> title, link |-> link, pubDate |-> pubDate, image |-> image]

\* The feeds of a tagged item list: each maximal run of one source is a feed.
RECURSIVE FeedsOf(_)
FeedsOf(tagged) ==
    IF tagged = <<>> THEN <<>>
    ELSE LET rest == FeedsOf(Tail(tagged))
             src == Head(tagged)[1]
             item == Head(tagged)[2]
         IN  IF rest # <<>> /\ rest[1].source = src
             THEN <<[source |-> src, items |-> <<item>> \o rest[1].items]>> \o Tail(rest)
             ELSE <<[source |-> src, items |-> <<item>>]>> \o rest

Input(tagged, max_items) ==
    [topic |-> Topic, priority_source_order |-> PriorityOrder, max_items |-> max_items,
     feeds |-> FeedsOf(tagged)]

\* process_feed_data(data) is called
FeedStart(inputs) ==
    /\ data \in inputs
    /\ fpc = "collect"
    /\ all_items = <<>>
    /\ next_item = 0
    /\ deduplicated_items = <<>>
    /\ final_items = <<>>
    /\ overflow_truncated = FALSE

NextFeed == Collect \/ DedupStep \/ PostProcess \/ Finish

\* Up to MaxInputItems items of one title: two sources, three links (two with
\* one canonical URL), two dates more than six hours apart.
FeedRawItems ==
    {RawItem(TitleP7, l, UtcDate(d), "") :
        l \in {LinkA, LinkA2, LinkB}, d \in {0, SixHours + 1}}
FeedInputs ==
    {Input(tagged, m) :
        tagged \in UNION {[1..n -> Sources \X FeedRawItems] : n \in 0..MaxInputItems},
        m \in {0, 1, DefaultMaxItems}}

InitFeed == InitLocks /\ FeedStart(FeedInputs) /\ CallIdle /\ JobIdle
SpecFeed == InitFeed /\ [][NextFeed]_vars

\* Two feeds of one item each: titles at the similarity boundary, dates at the
\* six-hour boundary, with and without image.
PairRawItems ==
    {RawItem(t, l, UtcDate(d), i) :
        t \in {TitleP5, TitleP6, TitleP7}, l \in {LinkA, LinkA2, LinkB},
        d \in {0, SixHours, SixHours + 1}, i \in {"", "i.png"}}
PairInputs ==
    {Input(tagged, DefaultMaxItems) : tagged \in [1..2 -> Sources \X PairRawItems]}

InitPair == InitLocks /\ FeedStart(PairInputs) /\ CallIdle /\ JobIdle
SpecPair == InitPair /\ [][NextFeed]_vars

\* Inputs with one more item, whose pubDate does not parse, at any position
\* among up to MaxInputItems - 1 items with good dates.
BadDate == [kind |-> "bad", local |-> 0, off |-> 0]
BadItems == {RawItem(TitleP7, l, BadDate, "") : l \in {LinkA, LinkB}}
InsertAt(seq, k, x) == SubSeq(seq, 1, k - 1) \o <<x>> \o SubSeq(seq, k, Len(seq))
UnparseableInputs(tagged) ==
    {Input(InsertAt(tagged, k, bad), m) :
        k \in 1..(Len(tagged) + 1), bad \in Sources \X BadItems, m \in {1, DefaultMaxItems}}

InitUnparseable ==
    /\ InitLocks
    /\ \E n \in 0..(MaxInputItems - 1) :
           \E tagged \in [1..n -> Sources \X FeedRawItems] :
               FeedStart(UnparseableInputs(tagged))
    /\ CallIdle
    /\ JobIdle
SpecUnparseable == InitUnparseable /\ [][NextFeed]_vars

\* Inputs with malformed items: up to MaxMalformedItems items whose pubDate
\* has a UTC offset, has none, or does not parse, and items lacking title,
\* link or pubDate.
MaxMalformedItems == 2
NaiveDate(t) == [kind |-> "naive", local |-> t, off |-> 0]
MalformedRawItems ==
    {RawItem(TitleP7, l, d, "") : l \in {LinkA, LinkB}, d \in {UtcDate(0), NaiveDate(0), BadDate}}
        \cup {[link |-> LinkA, pubDate |-> UtcDate(0), image |-> ""],
              [title |-> TitleP7, pubDate |-> UtcDate(0), image |-> ""],
              [title |-> TitleP7, link |-> LinkA, image |-> ""]}
InitMalformed ==
    /\ InitLocks
    /\ \E n \in 0..MaxMalformedItems :
           \E tagged \in [1..n -> Sources \X MalformedRawItems] :
               FeedStart({Input(tagged, DefaultMaxItems)})
    /\ CallIdle
    /\ JobIdle
SpecMalformed == InitMalformed /\ [][NextFeed]_vars

\* The items of the scenario "Flamengo vence" (ge, 10:00) and "Flamengo vence
\* o jogo" (lance, 11:00), and the inputs of two items built from their
\* titles, links, dates and sources.
TitleGe ==
    <<"F", "l", "a", "m", "e", "n", "g", "o", " ", "v", "e", "n", "c", "e">>
TitleLance ==
    <<"F", "l", "a", "m", "e", "n", "g", "o", " ", "v", "e",
      "n", "c", "e", " ", "o", " ", "j", "o", "g", "o">>
LinkGe ==
    <<"h", "t", "t", "p", "s", ":", "/", "/", "g", "e", ".", "c", "o", "m", "/", "a">>
LinkLance ==
    <<"h", "t", "t", "p", "s", ":", "/", "/", "l", "a", "n",
      "c", "e", ".", "c", "o", "m", ".", "b", "r", "/", "b">>
\* 2025-01-01T10:00:00Z and 2025-01-01T11:00:00Z, in seconds since midnight
TenOClock == UtcDate(10 * 3600)
ElevenOClock == UtcDate(11 * 3600)
ScenarioItemGe == RawItem(TitleGe, LinkGe, TenOClock, "")
ScenarioItemLance == RawItem(TitleLance, LinkLance, ElevenOClock, "")
ScenarioFeeds ==
    <<[source |-> "ge", items |-> <<ScenarioItemGe>>],
      [source |-> "lance", items |-> <<ScenarioItemLance>>]>>
ScenarioRawItems ==
    {RawItem(t, l, d, "") :
        t \in {TitleGe, TitleLance}, l \in {LinkGe, LinkLance}, d \in {TenOClock, ElevenOClock}}
ScenarioInputs ==
    {Input(tagged, DefaultMaxItems) : tagged \in [1..2 -> Sources \X ScenarioRawItems]}

InitScenario == InitLocks /\ FeedStart(ScenarioInputs) /\ CallIdle /\ JobIdle
SpecScenario == InitScenario /\ [][NextFeed]_vars

\* -------------------------------------------------- calls of canonicalize_url

\* Bound on the number of times canonicalize_url is applied to its own result.
MaxApplications == 2

\* URL strings: an optional scheme, an optional host, a path with or without
\* trailing slashes and ';' parameters, an optional query, an optional fragment
UrlSchemes == {<<>>, <<"h", "t", "t", "p", ":">>, <<"H", "T", "T", "P", "S", ":">>}
UrlHosts == {<<>>, <<"/", "/", "g">>, <<"/", "/", "G", ".", "b">>}
UrlPaths ==
    {<<>>, <<"/">>, <<"/", "a">>, <<"/", "a", "/">>, <<"/", "a", "/", "/">>, <<"/", "A", ";", "p">>, <<"/", "a", ";", "/">>, <<"/", "a", ";", "p", "/">>}
UrlQueries == {<<>>, <<"?", "q", "=", "1">>}
UrlFragments == {<<>>, <<"#", "f">>}
UrlInputs ==
    {scheme \o host \o path \o query \o fragment :
        scheme \in UrlSchemes, host \in UrlHosts, path \in UrlPaths,
        query \in UrlQueries, fragment \in UrlFragments}

InitCanonicalize ==
    /\ InitLocks
    /\ FeedIdle
    /\ call \in {[fn |-> "canonicalize_url", args |-> <<url>>] : url \in UrlInputs}
    /\ results = <<>>
    /\ JobIdle

\* canonicalize_url is applied to the URL, then to what it returned
Canonicalize ==
    /\ call.fn = "canonicalize_url"
    /\ Len(results) < MaxApplications
    /\ results' = Append(results,
           canonicalize_url(IF results = <<>> THEN call.args[1] ELSE results[Len(results)]))
    /\ UNCHANGED call
    /\ UNCHANGED <<lockVars, feedVars, jobVars, runVars>>

SpecCanonicalize == InitCanonicalize /\ [][Canonicalize]_vars

\* ----------------------------------------------------- calls of get_best_item

\* Items of two listed and two unlisted sources, with and without image, with
\* dates one hour apart, the same instant written with another UTC offset,
\* and a date that does not parse.
BestSources == {"ge", "lance", "uol", "espn"}
BestDates ==
    {UtcDate(0), UtcDate(3600), [kind |-> "aware", local |-> 3600, off |-> 3600], BadDate}
BestItems ==
    {RawItem(TitleP7, LinkA, d, i) @@ [source |-> src] :
        d \in BestDates, i \in {"", "i.png"}, src \in BestSources}

InitBest ==
    /\ InitLocks
    /\ FeedIdle
    /\ call \in {[fn |-> "get_best_item", args |-> <<item1, item2, order>>] :
                    item1 \in BestItems, item2 \in BestItems, order \in {PriorityOrder, <<>>}}
    /\ results = <<>>
    /\ JobIdle

\* get_best_item(item1, item2, order) and get_best_item(item2, item1, order)
\* return; each result is the position of the returned item in its call
BestItem ==
    /\ call.fn = "get_best_item"
    /\ results = <<>>
    /\ results' = <<get_best_item(call.args[1], call.args[2], call.args[3]),
                    get_best_item(call.args[2], call.args[1], call.args[3])>>
    /\ UNCHANGED call
    /\ UNCHANGED <<lockVars, feedVars, jobVars, runVars>>

SpecBest == InitBest /\ [][BestItem]_vars

\* ------------------------------------------- FeedScheduler._refresh_job

\* Bound: the job runs over the first NumTopics topics of TOPIC_DEFINITIONS.
NumTopics == 2

\* TOPIC_DEFINITIONS, in the order of the dict
TopicDef(topic, priority_source_order, sources) ==
    [topic |-> topic, priority_source_order |-> priority_source_order, sources |-> sources]
SourceDef(source, sections) == [source |-> source, sections |-> sections]
TOPIC_DEFINITIONS ==
    <<TopicDef("esportes_nacionais", <<"ge", "lance">>,
          <<SourceDef("ge", <<"futebol">>), SourceDef("lance", <<"futebol">>)>>),
      TopicDef("economia_politica", <<"g1", "folha">>,
          <<SourceDef("g1", <<"economia", "politica">>),
            SourceDef("folha", <<"economia", "politica">>)>>),
      TopicDef("internacional_latam", <<"ole", "as_cl", "as_co", "as_mx">>,
          <<SourceDef("ole", <<"primera", "ascenso">>), SourceDef("as_cl", <<"futbol">>),
            SourceDef("as_co", <<"futbol">>), SourceDef("as_mx", <<"futbol">>)>>),
      TopicDef("internacional_europa",
          <<"as_es", "marca", "theguardian", "lequipe", "kicker", "gazzetta", "abola">>,
          <<SourceDef("as_es", <<"primera", "copa_del_rey", "segunda">>),
            SourceDef("marca", <<"futbol">>), SourceDef("theguardian", <<"football">>),
            SourceDef("lequipe", <<"football">>),
            SourceDef("kicker", <<"bundesliga", "2-bundesliga">>),
            SourceDef("gazzetta", <<"calcio">>), SourceDef("abola", <<"ultimas">>)>>),
      TopicDef("ligas_eua", <<"foxsports", "cbssports">>,
          <<SourceDef("foxsports", <<"nfl", "college-football", "mlb", "nba">>),
            SourceDef("cbssports", <<"nfl", "college-football", "mlb", "nba">>)>>)>>

JobTopics == 1..(IF NumTopics < Len(TOPIC_DEFINITIONS) THEN NumTopics ELSE Len(TOPIC_DEFINITIONS))
\* the (source, section) pairs of the topic at position t
PairsOf(t) ==
    LET sources == TOPIC_DEFINITIONS[t].sources
    IN  UNION {{<<sources[i].source, sources[i].sections[j]>> :
                    j \in 1..Len(sources[i].sections)} : i \in 1..Len(sources)}
JobPairs == UNION {PairsOf(t) : t \in JobTopics}

\* An article dict as a scraper returns it.
Article == [title |-> TitleP7, url |-> LinkA, date_published |-> UtcDate(0), image |-> ""]

\* The parameters scrape_source_section accepts besides cls, and the
\* arguments of the call in _refresh_job: three positional, four by keyword.
ScrapeParameters ==
    <<"source", "section", "store", "max_pages", "max_articles", "request_delay">>
JobPositional == 3
JobKeywords == {"max_pages", "max_articles", "request_delay", "save_to_db"}
\* Python binds the call, or raises TypeError for an unexpected keyword
CallAccepted(parameters, positional, keywords) ==
    /\ positional <= Len(parameters)
    /\ keywords \subseteq {parameters[i] : i \in (positional + 1)..Len(parameters)}

InitRefresh ==
    /\ InitLocks
    /\ FeedIdle
    /\ CallIdle
    /\ is_running_flag = FALSE
    /\ last_run = "None"
    /\ jpc = "idle"
    /\ topic_i = 0
    /\ source_i = 0
    /\ section_i = 0
    /\ source_items = <<>>
    /\ input_feeds = <<>>
    /\ processed_data = <<>>
    /\ processed_topics = <<>>
    /\ yields \in [JobPairs -> {<<>>, <<Article>>}]
    /\ scraped = {}
    /\ fetch_errors = {}
    /\ processed = {}
    /\ failure = <<>>
    /\ RunIdle

\* lines 110-119: the flag test under self.lock, then the try block is entered
JobStart ==
    /\ jpc = "idle"
    /\ IF is_running_flag
       THEN UNCHANGED <<is_running_flag, jpc, topic_i>>
       ELSE /\ is_running_flag' = TRUE
            /\ jpc' = "topic"
            /\ topic_i' = 1
    /\ UNCHANGED <<last_run, source_i, section_i, source_items, input_feeds, processed_data,
                   processed_topics, yields, scraped, fetch_errors, processed, failure>>
    /\ UNCHANGED <<lockVars, feedVars, callVars, runVars>>

\* lines 120-131: the next topic of the loop; input_data_for_processor is built
TopicStart ==
    /\ jpc = "topic"
    /\ topic_i \in JobTopics
    /\ input_feeds' = <<>>
    /\ source_i' = 1
    /\ section_i' = 1
    /\ source_items' = <<>>
    /\ jpc' = "section"
    /\ UNCHANGED <<is_running_flag, last_run, topic_i, processed_data, processed_topics,
                   yields, scraped, fetch_errors, processed, failure>>
    /\ UNCHANGED <<lockVars, feedVars, callVars, runVars>>

\* line 144-146: the handler of an exception of the fetch: log and continue
\* with the next section
AfterFetchErrorMutant(next) == "except"
AfterFetchError(next) == next

\* lines 133-146: one iteration of the section loop
FetchSection ==
    /\ jpc = "section"
    /\ LET source == TOPIC_DEFINITIONS[topic_i].sources[source_i]
           section == source.sections[section_i]
           next == IF section_i < Len(source.sections) THEN "section" ELSE "format"
       IN  /\ scraped' = scraped \cup {<<source.source, section>>}
           /\ IF CallAccepted(ScrapeParameters, JobPositional, JobKeywords)
              THEN /\ source_items' = source_items \o yields[<<source.source, section>>]
                   /\ jpc' = next
                   /\ UNCHANGED <<fetch_errors, failure>>
              ELSE /\ fetch_errors' = fetch_errors \cup {<<source.source, section>>}
                   /\ jpc' = AfterFetchError(next)
                   /\ failure' = IF AfterFetchError(next) = "except"
                                 THEN <<topic_i, "scrape_source_section">> ELSE failure
                   /\ UNCHANGED source_items
           /\ section_i' = section_i + 1
    /\ UNCHANGED <<is_running_flag, last_run, topic_i, source_i, input_feeds, processed_data,
                   processed_topics, yields, processed>>
    /\ UNCHANGED <<lockVars, feedVars, callVars, runVars>>

\* lines 150-159: the item the processor expects, for an article
FormattedItem(item) ==
    [title |-> item.title, link |-> item.url, pubDate |-> item.date_published,
     image |-> item.image]

\* lines 147-165: after the sections of a source, its feed is appended when
\* it has items
FormatSource ==
    /\ jpc = "format"
    /\ LET sources == TOPIC_DEFINITIONS[topic_i].sources
       IN  /\ input_feeds' =
                  IF source_items # <<>>
                  THEN Append(input_feeds,
                           [source |-> sources[source_i].source,
                            items |-> [i \in 1..Len(source_items) |->
                                          FormattedItem(source_items[i])]])
                  ELSE input_feeds
           /\ jpc' = IF source_i < Len(sources) THEN "section" ELSE "process"
    /\ source_i' = source_i + 1
    /\ section_i' = 1
    /\ source_items' = <<>>
    /\ UNCHANGED <<is_running_flag, last_run, topic_i, processed_data, processed_topics,
                   yields, scraped, fetch_errors, processed, failure>>
    /\ UNCHANGED <<lockVars, feedVars, callVars, runVars>>

\* lines 122-129: input_data_for_processor
JobInput ==
    [topic |-> TOPIC_DEFINITIONS[topic_i].topic,
     priority_source_order |-> TOPIC_DEFINITIONS[topic_i].priority_source_order,
     max_items |-> DefaultMaxItems,
     feeds |-> input_feeds]

\* line 168: process_feed_data; its exception goes to the handler of line 186
ProcessTopic ==
    /\ jpc = "process"
    /\ LET out == process_feed_data(JobInput)
       IN  /\ processed_data' = out
           /\ IF out.raises = ""
              THEN /\ jpc' = "save"
                   /\ UNCHANGED failure
              ELSE /\ jpc' = "except"
                   /\ failure' = <<topic_i, "process_feed_data">>
    /\ processed' = processed \cup {topic_i}
    /\ UNCHANGED <<is_running_flag, last_run, topic_i, source_i, section_i, source_items,
                   input_feeds, processed_topics, yields, scraped, fetch_errors>>
    /\ UNCHANGED <<lockVars, feedVars, callVars, runVars>>

\* What the database does in one save: sqlite3.connect succeeds and the
\* INSERT OR REPLACE commits, connect raises, or the INSERT raises.
DbOutcomes == {"commit", "connect raises", "execute raises"}

\* store.save_processed_topic: the table after the call; an exception of the
\* cursor is caught there (False is returned) and the table is left as it was
save_processed_topicMutant(table, topic_name, json_data, db) ==
    IF db = "commit" THEN [t \in {topic_name} |-> json_data] ELSE table
save_processed_topic(table, topic_name, json_data, db) ==
    IF db = "commit"
    THEN [t \in DOMAIN table \cup {topic_name} |->
             IF t = topic_name THEN json_data ELSE table[t]]
    ELSE table

\* lines 171-180: get_conn, save_processed_topic, conn.close(); then the next
\* topic.  An exception of get_conn goes to the handler of line 186.
SaveTopic ==
    /\ jpc = "save"
    /\ \E db \in DbOutcomes :
           IF db = "connect raises"
           THEN /\ jpc' = "except"
                /\ failure' = <<topic_i, "get_conn">>
                /\ UNCHANGED <<processed_topics, topic_i>>
           ELSE /\ processed_topics' =
                       save_processed_topic(processed_topics, TOPIC_DEFINITIONS[topic_i].topic,
                           [items |-> processed_data.items,
                            overflow_truncated |-> processed_data.overflow_truncated], db)
                /\ jpc' = "topic"
                /\ topic_i' = topic_i + 1
                /\ UNCHANGED failure
    /\ UNCHANGED <<is_running_flag, last_run, source_i, section_i, source_items, input_feeds,
                   processed_data, yields, scraped, fetch_errors, processed>>
    /\ UNCHANGED <<lockVars, feedVars, callVars, runVars>>

\* lines 182-184 and 187-190: after the last topic last_run is set; finally
\* the flag is cleared under self.lock
JobEnd ==
    /\ jpc = "topic"
    /\ topic_i \notin JobTopics
    /\ last_run' = "set"
    /\ is_running_flag' = FALSE
    /\ jpc' = "done"
    /\ UNCHANGED <<topic_i, source_i, section_i, source_items, input_feeds, processed_data,
                   processed_topics, yields, scraped, fetch_errors, processed, failure>>
    /\ UNCHANGED <<lockVars, feedVars, callVars, runVars>>

\* lines 186-190: the handler of any exception of the try block logs it;
\* finally the flag is cleared under self.lock
JobExcept ==
    /\ jpc = "except"
    /\ is_running_flag' = FALSE
    /\ jpc' = "done"
    /\ UNCHANGED <<last_run, topic_i, source_i, section_i, source_items, input_feeds,
                   processed_data, processed_topics, yields, scraped, fetch_errors, processed,
                   failure>>
    /\ UNCHANGED <<lockVars, feedVars, callVars, runVars>>

NextRefresh ==
    \/ JobStart
    \/ TopicStart
    \/ FetchSection
    \/ FormatSource
    \/ ProcessTopic
    \/ SaveTopic
    \/ JobEnd
    \/ JobExcept

SpecRefresh == InitRefresh /\ [][NextRefresh]_vars

\* A run of the job over a database that holds a row, saved by an earlier
\* run, for any of the topics.
PreviousJson == [items |-> <<OutputOf(CollectFeed("ge", <<RawItem(TitleP7, LinkA, UtcDate(0), "")>>)[1],
                                      "previous")>>,
                 overflow_truncated |-> FALSE]
PreviousTables ==
    {[t \in names |-> PreviousJson] :
        names \in SUBSET {TOPIC_DEFINITIONS[t].topic : t \in JobTopics}}
InitPersist ==
    /\ InitLocks
    /\ FeedIdle
    /\ CallIdle
    /\ is_running_flag = FALSE
    /\ last_run = "None"
    /\ jpc = "idle"
    /\ topic_i = 0
    /\ source_i = 0
    /\ section_i = 0
    /\ source_items = <<>>
    /\ input_feeds = <<>>
    /\ processed_data = <<>>
    /\ processed_topics \in PreviousTables
    /\ yields = [pr \in JobPairs |-> <<Article>>]
    /\ scraped = {}
    /\ fetch_errors = {}
    /\ processed = {}
    /\ failure = <<>>
    /\ RunIdle
SpecPersist == InitPersist /\ [][NextRefresh]_vars

\* ------------------------------------ overlapping invocations of the job

\* The job variables an invocation's entry and exit leave alone.
JobLocals == <<jpc, topic_i, source_i, section_i, source_items, input_feeds, processed_data,
               processed_topics, yields, scraped, fetch_errors, processed, failure>>

\* "with self.lock:" can be entered
SelfLockFreeMutant == TRUE
SelfLockFree == self_lock = 0

\* The ways the try block of lines 119-187 ends: the loop completes and
\* last_run is set, or an exception is caught and logged by line 186.
LoopOutcomes == {"completed", "exception"}

\* start / _initial_refresh / trigger_refresh: the scheduler runs _refresh_job
\* in a thread of its pool
Invoke(i) ==
    /\ inv[i] \in {"idle", "skipped", "done"}
    /\ inv' = [inv EXCEPT ![i] = "enter"]
    /\ UNCHANGED <<self_lock, is_running_flag, last_run, JobLocals>>
    /\ UNCHANGED <<lockVars, feedVars, callVars>>

\* line 110: with self.lock:
RunEnter(i) ==
    /\ inv[i] = "enter"
    /\ SelfLockFree
    /\ self_lock' = i
    /\ inv' = [inv EXCEPT ![i] = "test"]
    /\ UNCHANGED <<is_running_flag, last_run, JobLocals>>
    /\ UNCHANGED <<lockVars, feedVars, callVars>>

\* lines 111-113: if self.is_running_flag: return (leaving the with block)
RunTest(i) ==
    /\ inv[i] = "test"
    /\ IF is_running_flag
       THEN /\ inv' = [inv EXCEPT ![i] = "skipped"]
            /\ self_lock' = 0
       ELSE /\ inv' = [inv EXCEPT ![i] = "set"]
            /\ UNCHANGED self_lock
    /\ UNCHANGED <<is_running_flag, last_run, JobLocals>>
    /\ UNCHANGED <<lockVars, feedVars, callVars>>

\* lines 114-119: self.is_running_flag = True; the with block is left and the
\* try block is entered
RunSet(i) ==
    /\ inv[i] = "set"
    /\ is_running_flag' = TRUE
    /\ self_lock' = 0
    /\ inv' = [inv EXCEPT ![i] = "loop"]
    /\ UNCHANGED <<last_run, JobLocals>>
    /\ UNCHANGED <<lockVars, feedVars, callVars>>

\* lines 119-187: the topic loop, to its end or to the exception handler
RunLoop(i) ==
    /\ inv[i] = "loop"
    /\ \E o \in LoopOutcomes :
           last_run' = IF o = "completed" THEN "set" ELSE last_run
    /\ inv' = [inv EXCEPT ![i] = "finally"]
    /\ UNCHANGED <<self_lock, is_running_flag, JobLocals>>
    /\ UNCHANGED <<lockVars, feedVars, callVars>>

\* lines 188-190: finally: with self.lock: self.is_running_flag = False
RunFinally(i) ==
    /\ inv[i] = "finally"
    /\ SelfLockFree
    /\ is_running_flag' = FALSE
    /\ inv' = [inv EXCEPT ![i] = "done"]
    /\ UNCHANGED <<self_lock, last_run, JobLocals>>
    /\ UNCHANGED <<lockVars, feedVars, callVars>>

InitInvocations == InitLocks /\ FeedIdle /\ CallIdle /\ JobIdle
NextInvocations ==
    \E i \in Invocations :
        \/ Invoke(i)
        \/ RunEnter(i)
        \/ RunTest(i)
        \/ RunSet(i)
        \/ RunLoop(i)
        \/ RunFinally(i)
SpecInvocations == InitInvocations /\ [][NextInvocations]_vars

(***************************************************************************)
(* Claims about the lock table.                                            *)
(***************************************************************************)

AcquirePcs == {"acq_enter", "acq_test", "acq_insert", "acq_read", "acq_locked",
               "acq_try", "acq_stamp", "acq_return"}
ReleasePcs == {"rel_get", "rel_check", "rel_release"}

\* p owns key k: its lock.acquire succeeded and its release_lock has not ended.
Holding(p, k) ==
    /\ key[p] = k
    /\ \/ pc[p] = "acq_stamp"
       \/ pc[p] = "acq_return" /\ got[p] = "True"
       \/ pc[p] \in {"scrape"} \cup ReleasePcs

\* C1: mutual exclusion.  At most one caller at a time holds a key; and as long
\* as the key's mutex was never released, once no acquire_lock call on the key
\* is in progress exactly one of the calls that returned has returned True.
C1_MutualExclusion ==
    \A k \in Keys :
        /\ Cardinality({p \in Callers : Holding(p, k)}) <= 1
        /\ LET returned == {p \in Callers : key[p] = k /\ got[p] # "none"
                                            /\ pc[p] \notin AcquirePcs}
               running == {p \in Callers : key[p] = k /\ pc[p] \in AcquirePcs}
           IN  (k \notin was_released /\ running = {} /\ returned # {})
                  => Cardinality({p \in returned : got[p] = "True"}) = 1

\* C1 witness: two calls on a fresh key have returned, one holds it and is
\* scraping, the other was denied.
C1_Witness ==
    \E k \in Keys : \E p, q \in Callers :
        /\ p # q /\ k \notin was_released
        /\ pc[p] = "scrape" /\ key[p] = k /\ got[p] = "True"
        /\ pc[q] = "idle" /\ key[q] = k /\ got[q] = "False"

\* C2: stale-lock override.  An acquire_lock call that began while the key's
\* mutex had been held for more than _STALE_AFTER_SECONDS, and whose holder
\* still has not released it, returns True.
C2_StaleOverride ==
    \A p \in Callers :
        ( /\ pc[p] = "acq_return"
          /\ seen_stale[p] # 0
          /\ mutex[lock[p]]
          /\ acquired_at[lock[p]] = seen_stale[p] )
        => got[p] = "True"

\* C3: acquire_lock returns False only when, at the step that decides it, the
\* mutex is held and that holding is not stale.
C3_FalseOnlyHeldFresh ==
    [][ \A p \in Callers :
          ( /\ pc[p] \in {"acq_locked", "acq_try"}
            /\ pc'[p] = "acq_return"
            /\ got'[p] = "False" )
          => ( /\ mutex[lock[p]]
               /\ now - acquired_at[lock[p]] <= _STALE_AFTER_SECONDS ) ]_vars

\* C4: release_lock on a key absent from the table changes nothing, creates no
\* entry and does not raise; and a second release_lock(key) right after a first
\* one leaves the table as the first one left it, the key Free, without raising.
C4_ReleaseStep ==
    \A p \in Callers :
        (pc[p] \in ReleasePcs /\ key[p] \notin DOMAIN _locks)
        => /\ _locks' = _locks /\ mutex' = mutex
           /\ raised'[p] = FALSE
           /\ pc'[p] \in {pc[p], "rel_check", "idle"}
C4_ReleaseTwice ==
    \A p \in Callers :
        (pc[p] = "idle" /\ caller[p] = "api" /\ rel_row # <<>> /\ rel_row[2] = 2)
        => /\ TableState = rel_row[3]
           /\ ~raised[p]
           /\ rel_row[1] \in DOMAIN _locks => ~mutex[_locks[rel_row[1]].lock]
C4_ReleaseIdempotent == [][C4_ReleaseStep]_vars /\ []C4_ReleaseTwice

\* C4 witness: the key was acquired, then released twice in a row.
C4_Witness ==
    /\ pc[1] = "idle" /\ rel_row # <<>> /\ rel_row[2] = 2
    /\ rel_row[1] \in was_released

\* C5: one mutex object per key.  No more Lock objects are ever created than
\* there are keys in the table, every caller's local `lock` is the object
\* stored under its key, and no write to an entry changes its object.
C5_OneObjectState ==
    /\ Len(mutex) <= Cardinality(DOMAIN _locks)
    /\ \A p \in Callers : lock[p] # 0 => lock[p] = _locks[key[p]].lock
C5_OneObjectStep ==
    \A k \in DOMAIN _locks : k \in DOMAIN _locks' /\ _locks'[k].lock = _locks[k].lock
C5_OneLockObject == []C5_OneObjectState /\ [][C5_OneObjectStep]_vars

\* C5 witness: two callers hold the table's object in their local `lock` at
\* the same time, after a timestamp update was written.
C5_Witness ==
    \E p, q \in Callers :
        /\ p # q /\ key[p] = key[q]
        /\ lock[p] # 0 /\ lock[q] # 0
        /\ _locks[key[p]].ts # 0

\* C6: a denied scrape_source_section returns ([], 0) at once: it neither
\* scrapes nor calls release_lock, and leaves the table and the mutex as they are.
C6_DeniedStep ==
    \A p \in Callers :
        ( /\ pc[p] = "acq_return" /\ caller[p] = "scrape" /\ got[p] = "False"
          /\ pc'[p] # pc[p] )
        => /\ pc'[p] = "idle"
           /\ result'[p] = "([], 0)"
           /\ _locks' = _locks /\ mutex' = mutex
C6_DeniedState ==
    \A p \in Callers :
        (caller[p] = "scrape" /\ pc[p] \in {"scrape"} \cup ReleasePcs) => got[p] = "True"
C6_DeniedSkips == [][C6_DeniedStep]_vars /\ []C6_DeniedState

\* C6 witness: a denied caller is back with ([], 0) while the holder still scrapes.
C6_Witness ==
    \E p, q \in Callers :
        /\ p # q
        /\ pc[p] = "idle" /\ got[p] = "False" /\ result[p] = "([], 0)"
        /\ pc[q] = "scrape" /\ key[q] = key[p] /\ mutex[_locks[key[q]].lock]

(***************************************************************************)
(* Claims about process_feed_data.                                         *)
(***************************************************************************)

Range(seq) == {seq[i] : i \in 1..Len(seq)}
Abs(n) == IF n < 0 THEN -n ELSE n
Provenance(item) == [source |-> item.source, link |-> item.link]

\* The canonical URLs of the input items an output item stands for: its own
\* and those of the items recorded in its merged_from.
GroupUrls(out) ==
    {canonicalize_url(m.link) : m \in {Provenance(out)} \cup Range(out.merged_from)}

\* C7: when max_items is not reached, two input items with the same canonical
\* URL (and parseable dates) are never represented by two different output
\* items: the canonical URLs of the members of two output groups are disjoint.
C7_ExactCollapse ==
    (fpc = "done" /\ ~overflow_truncated) =>
        \A p, q \in 1..Len(final_items) :
            p # q => GroupUrls(final_items[p]) \cap GroupUrls(final_items[q]) = {}

\* An input of two items with different canonical URLs has been processed.
PairRatio ==
    fuzz_ratio(normalize_title(all_items[1].title), normalize_title(all_items[2].title))
PairGap ==
    Abs(isoparse(all_items[1].pubDate).t - isoparse(all_items[2].pubDate).t)
C8_Case ==
    /\ fpc = "done"
    /\ Len(all_items) = 2
    /\ canonicalize_url(all_items[1].link) # canonicalize_url(all_items[2].link)

\* C8: two items with different canonical URLs yield one output item when the
\* similarity of their normalized titles is >= 92 and their dates are at most
\* 6 hours apart, and two output items when the similarity is 91 or the gap
\* is 6 hours and 1 second.
C8_WindowBoundary ==
    C8_Case =>
        /\ (PairRatio >= 92 /\ PairGap <= 6 * 3600) => Len(final_items) = 1
        /\ (PairRatio = 91 \/ PairGap = 6 * 3600 + 1) => Len(final_items) = 2
C8_Witness ==
    /\ C8_Case
    /\ PairRatio = 92
    /\ PairGap = 6 * 3600
    /\ Len(final_items) = 1

\* Duplicate items A (source at position 0 of priority_source_order) and B
\* (source at position 1), one feed each, with the same image presence and
\* the same publish date, have been processed.
ItemOf(source) ==
    LET f == CHOOSE i \in 1..Len(data.feeds) : data.feeds[i].source = source
    IN  data.feeds[f].items[1] @@ [source |-> source]
ItemA == ItemOf(data.priority_source_order[1])
ItemB == ItemOf(data.priority_source_order[2])
C9_Case ==
    /\ fpc = "done"
    /\ Len(data.feeds) = 2
    /\ {data.feeds[1].source, data.feeds[2].source}
           = {data.priority_source_order[1], data.priority_source_order[2]}
    /\ HasImage(ItemA) = HasImage(ItemB)
    /\ ItemA.pubDate = ItemB.pubDate
    /\ \/ canonicalize_url(ItemA.link) = canonicalize_url(ItemB.link)
       \/ fuzz_ratio(normalize_title(ItemA.title), normalize_title(ItemB.title)) >= 92
KeepsA ==
    /\ Len(final_items) = 1
    /\ final_items[1].source = ItemA.source
    /\ final_items[1].link = ItemA.link
    /\ final_items[1].title = ItemA.title
    /\ final_items[1].pubDate = ItemA.pubDate
    /\ final_items[1].image = ItemA.image

\* C9 as stated: for either order of the feeds the output keeps A and A's
\* merged_from contains B.
C9_AlwaysRecordsB ==
    C9_Case => (KeepsA /\ Provenance(ItemB) \in Range(final_items[1].merged_from))

\* C9: for either order of the feeds the output keeps A's link and content;
\* its merged_from is exactly [B] when B's feed is listed before A's, and is
\* empty (B is discarded without a record) when A's feed is listed first.
C9_PriorityKeepsA ==
    C9_Case =>
        /\ KeepsA
        /\ final_items[1].merged_from =
               IF data.feeds[1].source = ItemB.source THEN <<Provenance(ItemB)>> ELSE <<>>
C9_Witness ==
    /\ C9_Case
    /\ data.feeds[1].source = ItemA.source
    /\ ItemA.link # ItemB.link
    /\ KeepsA
    /\ final_items[1].merged_from = <<>>

\* The deduplicated set, as output items, and the part of it not returned.
DedupOutputs == {OutputItem(deduplicated_items[i].v) : i \in 1..Len(deduplicated_items)}
CutItems == DedupOutputs \ Range(final_items)
C10_Case ==
    /\ fpc = "done"
    /\ data.max_items >= 0
    /\ Len(deduplicated_items) > data.max_items

\* C10: when the deduplicated set has M > N = max_items items, exactly N of
\* them are returned, overflow_truncated is true, and every returned item's
\* publish date is >= the publish date of every item that was cut.
C10_Truncation ==
    C10_Case =>
        /\ Len(final_items) = data.max_items
        /\ overflow_truncated = TRUE
        /\ Range(final_items) \subseteq DedupOutputs
        /\ \A kept \in Range(final_items), cut \in CutItems :
               isoparse(kept.pubDate).t >= isoparse(cut.pubDate).t
C10_Witness ==
    /\ C10_Case
    /\ data.max_items = 1
    /\ Len(final_items) = 1
    /\ \E cut \in CutItems : isoparse(cut.pubDate).t < isoparse(final_items[1].pubDate).t

\* C11: when the deduplicated set has M <= max_items items, all M of them are
\* returned and overflow_truncated is false; overflow_truncated is true if
\* and only if the count before truncation exceeded max_items.
C11_NoTruncation ==
    fpc = "done" =>
        /\ overflow_truncated = (Len(deduplicated_items) > data.max_items)
        /\ Len(deduplicated_items) <= data.max_items =>
               /\ Len(final_items) = Len(deduplicated_items)
               /\ Range(final_items) = DedupOutputs
               /\ overflow_truncated = FALSE
C11_Witness ==
    /\ fpc = "done"
    /\ Len(deduplicated_items) = data.max_items
    /\ Len(final_items) = 1
    /\ overflow_truncated = FALSE

\* C12: the returned list is sorted by publish date, descending, also when
\* winners were replaced during deduplication, and has at most max_items
\* items.
C12_OutputOrdered ==
    fpc = "done" =>
        /\ Len(final_items) <= data.max_items
        /\ \A i \in 1..(Len(final_items) - 1) :
               isoparse(final_items[i].pubDate).t >= isoparse(final_items[i + 1].pubDate).t
C12_Witness ==
    /\ fpc = "done"
    /\ Len(final_items) >= 2
    /\ \E i \in 1..Len(final_items) : final_items[i].merged_from # <<>>
    /\ isoparse(final_items[1].pubDate).t > isoparse(final_items[Len(final_items)].pubDate).t

\* What one step of the dedup loop removes from the table and what it enters.
TableValues(table) == {table[i].v : i \in 1..Len(table)}
ReplacedWinners == TableValues(deduplicated_items) \ TableValues(deduplicated_items')
NewWinners == TableValues(deduplicated_items') \ TableValues(deduplicated_items)
C17_ReplaceStep ==
    \A old \in ReplacedWinners :
        \E new \in NewWinners :
            {Provenance(old)} \cup Range(old.merged_from) \subseteq Range(new.merged_from)

\* C17: whenever a winner is replaced, the new winner's merged_from contains
\* the {source, link} of the replaced winner and everything the replaced
\* winner's merged_from held, so after a chain W1, W2, W3 of replacements in
\* one group W3's merged_from contains W1 and W2.
C17_TransitiveProvenance == [][C17_ReplaceStep]_vars
C17_Witness ==
    \E i \in 1..Len(deduplicated_items) :
        LET w3 == deduplicated_items[i].v
        IN  \E m1, m2 \in Range(w3.merged_from) :
                /\ m1 # m2
                /\ m1 # Provenance(w3)
                /\ m2 # Provenance(w3)

\* The items of the input whose pubDate does not parse, tagged with their
\* source, and the input without them.
RECURSIVE Keep(_, _)
Keep(items, kinds) ==
    IF items = <<>> THEN <<>>
    ELSE (IF Head(items).pubDate.kind \in kinds THEN <<Head(items)>> ELSE <<>>)
             \o Keep(Tail(items), kinds)
FeedsKeeping(d, kinds) ==
    [i \in 1..Len(d.feeds) |-> [d.feeds[i] EXCEPT !.items = Keep(@, kinds)]]
ProvenancesOf(feeds) ==
    UNION {{[source |-> feeds[i].source, link |-> item.link] : item \in Range(feeds[i].items)} :
           i \in 1..Len(feeds)}
UnparseableProvenances == ProvenancesOf(FeedsKeeping(data, {"bad"}))
ParseableProvenances == ProvenancesOf(FeedsKeeping(data, {"aware", "naive"}))
WithoutUnparseable == [data EXCEPT !.feeds = FeedsKeeping(data, {"aware", "naive"})]

\* C13: the output for an input with an item whose pubDate cannot be parsed
\* is the output for the input without that item (items, order, merged_from,
\* overflow_truncated), and the item is neither an output item nor in a
\* merged_from list.
C13_UnparseableIgnored ==
    fpc = "done" =>
        /\ process_feed_data(WithoutUnparseable)
               = [raises |-> "", items |-> final_items, overflow_truncated |-> overflow_truncated]
        /\ \A out \in Range(final_items) :
               /\ out.pubDate.kind # "bad"
               /\ \A bad \in UnparseableProvenances \ ParseableProvenances :
                      bad \notin {Provenance(out)} \cup Range(out.merged_from)
C13_Witness ==
    /\ fpc = "done"
    /\ \E bad \in UnparseableProvenances \ ParseableProvenances :
           \E out \in Range(final_items) :
               /\ canonicalize_url(bad.link) = canonicalize_url(out.link)
               /\ out.merged_from # <<>>

\* C15 as stated: the scenario yields exactly one item, with ge's link and
\* lance's item in merged_from.
C15_ScenarioMerged ==
    (fpc = "done" /\ data.feeds = ScenarioFeeds) =>
        /\ Len(final_items) = 1
        /\ final_items[1].link = LinkGe
        /\ final_items[1].merged_from = <<[source |-> "lance", link |-> LinkLance]>>

\* C15: the titles of the scenario have similarity 80, below 92, so it yields
\* two items, lance's (the newer) first and ge's second, neither with a
\* merged_from entry.
C15_ScenarioTwoItems ==
    (fpc = "done" /\ data.feeds = ScenarioFeeds) =>
        /\ fuzz_ratio(normalize_title(TitleGe), normalize_title(TitleLance)) = 80
        /\ final_items = <<OutputOf(ScenarioItemLance @@ [source |-> "lance", merged_from |-> <<>>],
                                    Topic),
                           OutputOf(ScenarioItemGe @@ [source |-> "ge", merged_from |-> <<>>],
                                    Topic)>>
        /\ overflow_truncated = FALSE
C15_Witness ==
    /\ fpc = "done"
    /\ data.feeds = ScenarioFeeds
    /\ Len(final_items) = 2
    /\ final_items[1].link = LinkLance
    /\ final_items[2].link = LinkGe

(***************************************************************************)
(* Claims about canonicalize_url and get_best_item.                        *)
(***************************************************************************)

\* C14: canonicalize_url(canonicalize_url(u)) = canonicalize_url(u) for every
\* URL string u.
C14_Idempotent ==
    (call.fn = "canonicalize_url" /\ Len(results) >= 2) => results[2] = results[1]

\* The tiers of the cascade, for items a and b and the priority list order.
Listed(order, x) == \E i \in 1..Len(order) : order[i] = x.source
Outranks(order, a, b) ==
    /\ Listed(order, a)
    /\ Listed(order, b) =>
           (CHOOSE i \in 1..Len(order) : order[i] = a.source)
               < (CHOOSE i \in 1..Len(order) : order[i] = b.source)
WithImage(x) == x.image # ""
Later(a, b) ==
    /\ a.pubDate.kind # "bad"
    /\ b.pubDate.kind # "bad" =>
           a.pubDate.local - a.pubDate.off > b.pubDate.local - b.pubDate.off
\* 1 when the cascade decides for a, 2 when it decides for b, 0 when no tier differs
Decided(order, a, b) ==
    IF Outranks(order, a, b) THEN 1
    ELSE IF Outranks(order, b, a) THEN 2
    ELSE IF WithImage(a) /\ ~WithImage(b) THEN 1
    ELSE IF WithImage(b) /\ ~WithImage(a) THEN 2
    ELSE IF Later(a, b) THEN 1
    ELSE IF Later(b, a) THEN 2
    ELSE 0

\* C16: get_best_item returns the item of the better-ranked source (a source
\* not in the list ranks last), else the one with a non-empty image, else the
\* one with the later date (an unparseable date is the minimum); whenever a
\* tier differs, the call with the arguments swapped returns the same item.
C16_Cascade ==
    (call.fn = "get_best_item" /\ results # <<>>) =>
        LET decided == Decided(call.args[3], call.args[1], call.args[2])
        IN  decided # 0 =>
                /\ results[1] = decided
                /\ results[2] = 3 - decided
C16_Witness ==
    /\ call.fn = "get_best_item"
    /\ results = <<2, 1>>
    /\ ~Listed(call.args[3], call.args[1])
    /\ ~Listed(call.args[3], call.args[2])
    /\ call.args[1].source # call.args[2].source
    /\ WithImage(call.args[1]) = WithImage(call.args[2])
    /\ call.args[1].pubDate.kind = "bad"
    /\ call.args[2].pubDate.kind = "aware"

(***************************************************************************)
(* Claims about FeedScheduler._refresh_job.                                *)
(***************************************************************************)

\* A fetch raises in this step.
FetchRaises == fetch_errors' # fetch_errors
C18_FetchErrorStep ==
    FetchRaises =>
        /\ source_items' = source_items
        /\ input_feeds' = input_feeds
        /\ jpc' \in {"section", "format"}
        /\ failure' = failure
        /\ topic_i' = topic_i
C18_RunCompletes ==
    /\ failure # <<>> => failure[2] # "scrape_source_section"
    /\ (jpc = "done" /\ failure = <<>>) =>
           /\ scraped = JobPairs
           /\ processed = JobTopics
           /\ last_run = "set"

\* C18: an exception raised while fetching one (source, section) makes that
\* pair contribute no item and nothing else: the job goes on with the next
\* section or source, and a run that no other error ends fetches every pair
\* and processes every topic.
C18_FetchFailureIsolated == [][C18_FetchErrorStep]_vars /\ []C18_RunCompletes
C18_Witness ==
    /\ jpc = "done"
    /\ failure = <<>>
    /\ fetch_errors # {}
    /\ scraped = JobPairs
    /\ processed = JobTopics
    /\ DOMAIN processed_topics = {TOPIC_DEFINITIONS[t].topic : t \in JobTopics}

\* C19: an error while formatting, deduplicating, serializing or persisting
\* one topic, or opening the database connection for it, fails that topic
\* only: every later topic is still fetched and processed in the same run.
C19_TopicFailureIsolated ==
    (jpc = "done" /\ failure # <<>>) =>
        \A t \in JobTopics :
            t > failure[1] => (PairsOf(t) \subseteq scraped /\ t \in processed)

\* The pairs of topic t whose scraper yields articles in this run.
Yielding(t) == {pr \in PairsOf(t) : yields[pr] # <<>>}
\* C20: the articles of every pair of a topic whose scraper yields some are in
\* the feeds passed to process_feed_data, tagged with their source, and such
\* a topic is persisted with a non-empty item list.
C20_ArticlesReachProcessor ==
    /\ jpc = "save" =>
           \A pr \in Yielding(topic_i) :
               \E f \in 1..Len(input_feeds) :
                   /\ input_feeds[f].source = pr[1]
                   /\ \A a \in Range(yields[pr]) :
                          FormattedItem(a) \in Range(input_feeds[f].items)
    /\ \A t \in JobTopics :
           (TOPIC_DEFINITIONS[t].topic \in DOMAIN processed_topics /\ Yielding(t) # {})
               => processed_topics[TOPIC_DEFINITIONS[t].topic].items # <<>>

\* C21: process_feed_data returns normally for every list of raw items, and
\* every item admitted to grouping carries a timezone-aware parsed date.
C21_NeverFails ==
    /\ fpc \notin {"TypeError", "KeyError"}
    /\ \A i \in 1..Len(all_items) : all_items[i].parsed_pubDate.aware

\* The item the dedup loop is at is a duplicate (exact or fuzzy) of an entry of
\* the table, and get_best_item keeps that entry.
Losing(table, item) ==
    /\ DuplicateOf(item, table) # 0
    /\ get_best_item(table[DuplicateOf(item, table)].v, item, data.priority_source_order) = 1
C22_LosingStep ==
    (/\ fpc = "dedup"
     /\ next_item <= Len(all_items)
     /\ Losing(deduplicated_items, all_items[next_item]))
        => /\ deduplicated_items' = deduplicated_items
           /\ fpc' = "dedup"
           /\ next_item' = next_item + 1

\* C22: an item that is a duplicate and loses against the existing winner
\* leaves the dedup table as it was: same keys, same winners, same merged_from
\* lists; the loop goes on with the next item.
C22_LosingDuplicateNoChange == [][C22_LosingStep]_vars
C22_Witness ==
    /\ fpc = "dedup"
    /\ next_item = 4
    /\ Len(deduplicated_items) = 1
    /\ deduplicated_items[1].v.merged_from # <<>>
    /\ Provenance(all_items[3]) # Provenance(deduplicated_items[1].v)
    /\ Losing(deduplicated_items, all_items[3])

\* Every key of the table is the canonical URL of the winner stored under it,
\* and no key occurs twice.
C23_KeysCanonical ==
    /\ \A i \in 1..Len(deduplicated_items) :
           deduplicated_items[i].k = deduplicated_items[i].v.canonical_url
    /\ \A i, j \in 1..Len(deduplicated_items) :
           deduplicated_items[i].k = deduplicated_items[j].k => i = j
\* The item the dedup loop is at is a duplicate and get_best_item returns it.
Winning(table, item) ==
    /\ DuplicateOf(item, table) # 0
    /\ get_best_item(table[DuplicateOf(item, table)].v, item, data.priority_source_order) = 2
C23_ReplacementStep ==
    (/\ fpc = "dedup"
     /\ next_item <= Len(all_items)
     /\ Winning(deduplicated_items, all_items[next_item]))
        => Len(deduplicated_items') = Len(deduplicated_items)
C23_OutputUrlsDistinct ==
    fpc \in {"final", "done"} =>
        \A i, j \in 1..Len(final_items) :
            canonicalize_url(final_items[i].link) = canonicalize_url(final_items[j].link)
                => i = j

\* C23: after every step of the dedup loop each key of the table is the
\* canonical URL of the winner stored under it, a replacement leaves the
\* number of entries unchanged, and no two output items have the same
\* canonical URL.
C23_KeyInvariant ==
    /\ []C23_KeysCanonical
    /\ [][C23_ReplacementStep]_vars
    /\ []C23_OutputUrlsDistinct
\* a winner under one key was replaced by an item with another key, beside
\* another entry of the table
C23_Witness ==
    /\ fpc = "dedup"
    /\ Len(deduplicated_items) = 2
    /\ \E i \in 1..2 :
           /\ deduplicated_items[i].v.merged_from # <<>>
           /\ canonicalize_url(deduplicated_items[i].v.merged_from[1].link)
                  # deduplicated_items[i].k

\* The JSON saved for the topic the job is at.
NewJson ==
    [items |-> processed_data.items, overflow_truncated |-> processed_data.overflow_truncated]
JobTopicName == TOPIC_DEFINITIONS[topic_i].topic
\* The row of topic name in a table, <<>> when there is none.
RowOf(table, name) == IF name \in DOMAIN table THEN <<table[name]>> ELSE <<>>
TopicNames == {TOPIC_DEFINITIONS[t].topic : t \in 1..Len(TOPIC_DEFINITIONS)}
C24_SaveStep ==
    (jpc = "save" /\ jpc' # "save") =>
        \/ processed_topics' = processed_topics
        \/ /\ jpc' = "topic"
           /\ RowOf(processed_topics', JobTopicName) = <<NewJson>>
           /\ \A name \in TopicNames \ {JobTopicName} :
                  RowOf(processed_topics', name) = RowOf(processed_topics, name)
C24_OtherSteps == jpc # "save" => processed_topics' = processed_topics
\* after a run, a topic the run did not reach holds no row it did not hold
\* before and only a previous result
C24_Unreached ==
    jpc = "done" =>
        \A t \in JobTopics \ processed :
            RowOf(processed_topics, TOPIC_DEFINITIONS[t].topic) \in {<<>>, <<PreviousJson>>}

\* C24: a save of one topic either stores the new JSON as that topic's only
\* row and changes no other topic's row, or (when it fails) leaves every row
\* unchanged; no other step of the job writes a row, so after a run that stops
\* midway the topics not yet saved hold their previous result.
C24_FullReplace ==
    /\ [][C24_SaveStep /\ C24_OtherSteps]_vars
    /\ []C24_Unreached
\* the run stopped at the second topic after replacing the row of the first
\* and left the previous row of the second
C24_Witness ==
    /\ jpc = "done"
    /\ failure # <<>>
    /\ failure[1] = 2
    /\ RowOf(processed_topics, TOPIC_DEFINITIONS[1].topic) = <<[items |-> <<>>, overflow_truncated |-> FALSE]>>
    /\ RowOf(processed_topics, TOPIC_DEFINITIONS[2].topic) = <<PreviousJson>>

\* C25: when the input items have pairwise different {source, link}, no
\* merged_from of the table or of the output holds an entry twice.
NoRepeats(seq) == \A i, j \in 1..Len(seq) : seq[i] = seq[j] => i = j
C25_NoRepeatedMerge ==
    NoRepeats([i \in 1..Len(all_items) |-> Provenance(all_items[i])]) =>
        /\ \A i \in 1..Len(deduplicated_items) : NoRepeats(deduplicated_items[i].v.merged_from)
        /\ \A i \in 1..Len(final_items) : NoRepeats(final_items[i].merged_from)

\* C26: no two items of the output, before truncation, are fuzzy duplicates of
\* each other (title similarity >= 92 and dates at most six hours apart).
C26_NoFuzzyDuplicates ==
    fpc = "final" =>
        \A i, j \in 1..Len(deduplicated_items) :
            i # j => ~Similar(deduplicated_items[i].v, deduplicated_items[j].v)

\* C27: no release_lock call releases a mutex that is not locked (which raises
\* RuntimeError), whatever the interleaving with other release_lock and
\* acquire_lock calls.
C27_ReleaseNeverRaises == \A p \in Callers : ~raised[p]

\* C28: when acquire_lock finds the key's mutex locked (line 24), the
\* timestamp it computes the age from is the time the current holding began,
\* so a holding younger than the threshold is never judged stale.
C28_AgeOfCurrentHolding ==
    \A p \in Callers :
        (pc[p] = "acq_locked" /\ mutex[lock[p]]) =>
            /\ ts[p] = acquired_at[lock[p]]
            /\ IsStale(now - ts[p]) => IsStale(now - acquired_at[lock[p]])

\* The mutex of key k exists and is not locked.
Free(k) == k \in DOMAIN _locks /\ ~mutex[_locks[k].lock]
\* A thread in scrape_source_section past a granted acquire_lock.
Granted(p) == caller[p] = "scrape" /\ pc[p] \in {"scrape", "rel_get", "rel_check", "rel_release"}
C29_HoldsUntilRelease ==
    \A p \in Callers : Granted(p) => ~Free(key[p])
C29_ExitStep ==
    \A p \in Callers :
        (Granted(p) /\ pc'[p] # pc[p]) =>
            /\ pc[p] = "scrape" => pc'[p] = "rel_get"
            /\ pc[p] = "rel_get" => pc'[p] = "rel_check"
            /\ pc[p] = "rel_check" => pc'[p] = "rel_release"
            /\ pc[p] = "rel_release" => (pc'[p] = "idle" /\ Free(key[p])' /\ ~raised'[p])
C29_EventuallyFree ==
    \A p \in Callers : \A k \in ScrapeKeys :
        (Granted(p) /\ key[p] = k) ~> Free(k)

\* C29: once acquire_lock returned True in scrape_source_section, every way
\* out of the function runs release_lock for the key exactly once, it finds
\* the mutex locked and unlocks it, and so the key becomes Free again.
C29_GrantedIsReleased ==
    /\ []C29_HoldsUntilRelease
    /\ [][C29_ExitStep]_vars
    /\ C29_EventuallyFree
\* the scrape ended through the early return of an unknown section, and the
\* key is Free
C29_Witness ==
    \E p \in Callers :
        /\ caller[p] = "scrape"
        /\ pc[p] = "idle"
        /\ got[p] = "True"
        /\ result[p] = "[]"
        /\ Free(key[p])
        /\ key[p] \in was_released

\* The invocations inside the try block of _refresh_job or its finally clause.
Runners == {i \in Invocations : inv[i] \in {"loop", "finally"}}
C30_OneRunner ==
    /\ Cardinality(Runners) <= 1
    /\ is_running_flag <=> Runners # {}
C30_SkipStep ==
    \A i \in Invocations :
        (inv[i] = "test" /\ is_running_flag /\ inv'[i] # inv[i]) =>
            /\ inv'[i] = "skipped"
            /\ is_running_flag'
            /\ UNCHANGED <<last_run, JobLocals>>
C30_ClearStep ==
    \A i \in Invocations :
        (i \in Runners /\ inv'[i] \notin {"loop", "finally"}) =>
            /\ inv'[i] = "done"
            /\ ~is_running_flag'

\* C30: at most one invocation of _refresh_job is inside the topic loop at any
\* time; an invocation that finds is_running_flag set returns without
\* fetching or saving and leaves the flag set; the invocation that set the flag
\* clears it when it ends, normally or through the exception handler.
C30_SingleRun ==
    /\ []C30_OneRunner
    /\ [][C30_SkipStep /\ C30_ClearStep]_vars
\* one invocation was skipped while another is in the topic loop, after a
\* third has run and ended
C30_Witness ==
    \E i, j, k \in Invocations :
        /\ inv[i] = "skipped"
        /\ inv[j] = "loop"
        /\ inv[k] = "done"
        /\ is_running_flag

====
